---- MODULE Spec2Model ----
(***************************************************************************)
(* Statistics engine of realbot-g3: modules/stats/stats.py (StatsDatabase) *)
(* and modules/stats/stats_models.py (Encounter, EncounterSummary,         *)
(* ShinyPhase, SpeciesRecord).                                             *)
(*                                                                         *)
(* Python None is modelled by the record None where the value is an object *)
(* and by the integer NULL where it is a number or an SQL column.          *)
(* Times are ticks of a logical clock.                                     *)
(***************************************************************************)
EXTENDS Integers, Sequences, FiniteSets, TLC

VARIABLES
    disk,                    \* committed content of stats.db
    db,                      \* what the connection sees: disk plus the open transaction
    running,                 \* FALSE once sys.exit(1) has ended the process
    log_encounters,          \* context.config.logging.log_encounters
    last_encounter,
    last_fishing_attempt,
    last_shiny_species_phase_encounters,
    current_shiny_phase,
    shortest_shiny_phase,
    longest_shiny_phase,
    next_encounter_id,
    encounter_summaries,
    encounter_timestamps,
    encounter_rate,
    now,                     \* logical clock: time.time() and EncounterInfo.encounter_time
    instance,                \* history: number of constructions of the engine so far
    opened_max_id,           \* history: greatest stored encounter_id when this instance was constructed
    calls,                   \* history: one entry per log_encounter call
    phase_log,               \* history: the encounters given to ShinyPhase.update on the phase under test
    stats_db,                \* stats.db: its tables and their columns, the rows of schema_version and base_data
    base_data,               \* self._base_data
    schema_log,              \* history: one entry per construction of the engine on stats_db
    writers,                 \* threads inside log_encounter: position, Encounter built, insert policy
    unlocked,                \* history: the statements issued on the connection without self._lock held
    http,                    \* the HTTP server thread: position in a read of the engine
    cursor_user,             \* the thread whose statement self._cursor executed last
    stats_dir,               \* the profile: whether profile.path / "stats" is a directory
    write_log,               \* history: one entry per _execute_write / _commit call made on its own
    work_queue,              \* modules.main.work_queue: the callbacks put and not yet taken
    unfinished_tasks,        \* Queue.unfinished_tasks: puts minus task_done calls
    server,                  \* the HTTP server thread: position in _update_via_work_queue
    state_cache,             \* the StateCacheItem a request reads: value and age_in_frames
    main_loop,               \* the main thread: whether it still takes callbacks from work_queue
    rates,                   \* the sample windows and the two estimators of _update_encounter_rates
    frame,                   \* context.frame
    global_stats,            \* the GlobalStats object a consumer holds, or None
    shiny_log                \* the list get_shiny_log returned last: shiny_phase_id and end_time of its entries

vars == <<disk, db, running, log_encounters, last_encounter, last_fishing_attempt,
          last_shiny_species_phase_encounters, current_shiny_phase, shortest_shiny_phase,
          longest_shiny_phase, next_encounter_id, encounter_summaries, encounter_timestamps,
          encounter_rate, now, instance, opened_max_id, calls, phase_log,
          stats_db, base_data, schema_log, writers, unlocked, http, cursor_user, stats_dir, write_log,
          work_queue, unfinished_tasks, server, state_cache, main_loop, rates, frame,
          global_stats, shiny_log>>

\* the work queue of the HTTP server and the main loop
web == <<work_queue, unfinished_tasks, server, state_cache, main_loop>>

\* the encounter-rate estimators on their own
rate_vars == <<rates, frame>>

\* what the engine's operations on encounters leave alone
aux == <<stats_db, base_data, schema_log, writers, unlocked, http, cursor_user, stats_dir, write_log,
         web, rate_vars, global_stats, shiny_log>>

--------------------------------------------------------------------------
(* Bounds of the model *)

MaxCalls == 2          \* log_encounter calls in one behaviour
MaxFishing == 1        \* fishing attempts counted by one phase object
MaxPokenav == 1        \* PokeNav calls counted by one phase object
MaxRestarts == 1       \* re-constructions of the engine in one behaviour
MaxPhaseLog == 6       \* encounters applied to one phase in SpecPhaseUpdate
MaxSummaryLog == 4     \* encounters applied to the summary map in SpecSummary
MaxWriterCalls == 1    \* operations each thread of SpecWriters carries out
MaxHttpReads == 2      \* requests the HTTP thread serves in SpecHttp
MaxWrites == 4         \* calls of a write primitive or of _commit in SpecWriteErrors
MaxWriteId == 2        \* the ids the write primitives are called with
MaxUpgradedCalls == 1  \* log_encounter calls in one behaviour of SpecUpgraded
MaxClosedPhases == 11  \* closed phases in a store get_shiny_log reads
EndTimeModulus == MaxClosedPhases + 2   \* closing times are below it
MaxCatches == 1        \* catches a summary of SpecUpgraded counts
MaxAge == 6            \* frames the age of the cache entry counts up to
MaxQueue == 2          \* callbacks waiting in work_queue
MaxSamples == 103      \* calls of _update_encounter_rates in one behaviour of SpecRates
FreeSamples == 2       \* the first samples, between which clock and frame counter move freely

(* Program constants *)

UnownOffset == 20100
UnownSpecies == 201
ShinyThreshold == 8
encounter_buffer_size == 100
SecondsPerHour == 3600
benchmark_encounter_buffer_size == 1000
FramesPerHourTenths == 2150190   \* 3600 * 59.727500569606, in tenths

NULL == -1
None == [none |-> TRUE]

--------------------------------------------------------------------------
(* Pokemon snapshots supplied by the caller (EncounterInfo.pokemon) *)

Pokemon(s, l, iv, sv) == [species |-> s, unown_letter |-> l, iv_sum |-> iv, shiny_value |-> sv]

is_shiny(pokemon) == pokemon.shiny_value < ShinyThreshold

SpeciesIsUnown(species) == species = UnownSpecies

get_unown_index_by_letter(letter) ==
    CASE letter = "?" -> 26
      [] letter = "!" -> 27
      [] letter = "A" -> 0
      [] letter = "B" -> 1
      [] letter = "C" -> 2
      [] OTHER -> 25

get_unown_letter_by_index(letter_index) ==
    CASE letter_index = 0 -> "A"
      [] letter_index = 26 -> "?"
      [] letter_index = 27 -> "!"
      [] letter_index = 1 -> "B"
      [] letter_index = 2 -> "C"
      [] OTHER -> "Z"

get_species_by_index(index) ==
    IF index >= UnownOffset /\ index < UnownOffset + 100 THEN UnownSpecies ELSE index

\* Pokemon the engine is driven with
EnginePokemons ==
    { Pokemon(25, "", 40, 100), Pokemon(25, "", 50, 3), Pokemon(UnownSpecies, "B", 50, 100) }

\* Pokemon the pure update functions are driven with
UpdatePokemons ==
    { Pokemon(25, "", 40, 100), Pokemon(1, "", 40, 100), Pokemon(1, "", 50, 3),
      Pokemon(UnownSpecies, "A", 30, 200), Pokemon(UnownSpecies, "B", 30, 200) }

BattleOutcomes == {"Caught", "RanAway"}
FishingResults == {"Encounter", "GotAway"}

--------------------------------------------------------------------------
(* stats_models.py: SpeciesRecord *)

SpeciesRecord(value, species, species_form) ==
    [value |-> value, species |-> species, species_form |-> species_form]

SpeciesRecord_from_row_values(value, species_id) ==
    IF species_id = NULL \/ species_id = 0 THEN None
    ELSE IF species_id >= UnownOffset /\ species_id < UnownOffset + 100
         THEN SpeciesRecord(value, get_species_by_index(UnownSpecies),
                            get_unown_letter_by_index(species_id - UnownOffset))
         ELSE SpeciesRecord(value, get_species_by_index(species_id), "None")

SpeciesRecord_create(value, pokemon) ==
    IF SpeciesIsUnown(pokemon.species)
    THEN SpeciesRecord(value, pokemon.species, pokemon.unown_letter)
    ELSE SpeciesRecord(value, pokemon.species, "None")

SpeciesRecord_is_same_species(record, pokemon) ==
    /\ pokemon.species = record.species
    /\ (~SpeciesIsUnown(pokemon.species) \/ pokemon.unown_letter = record.species_form)

SpeciesRecord_copy(record) == SpeciesRecord(record.value, record.species, record.species_form)

SpeciesRecord_species_id_for_database(record) ==
    IF SpeciesIsUnown(record.species) /\ record.species_form # "None"
    THEN UnownOffset + get_unown_index_by_letter(record.species_form)
    ELSE record.species

--------------------------------------------------------------------------
(* stats_models.py: Encounter *)

Encounter(id, phase_id, time, pokemon) ==
    [encounter_id |-> id, shiny_phase_id |-> phase_id, encounter_time |-> time,
     outcome |-> "None", pokemon |-> pokemon]

Encounter_species_id(encounter) == encounter.pokemon.species

\* the key log_encounter and GlobalStats.species file a summary under
SpeciesIndexOf(pokemon) ==
    IF SpeciesIsUnown(pokemon.species)
    THEN UnownOffset + get_unown_index_by_letter(pokemon.unown_letter)
    ELSE pokemon.species

--------------------------------------------------------------------------
(* stats_models.py: EncounterSummary *)

EncounterSummary_create(encounter) ==
    LET p == encounter.pokemon IN
    [species |-> p.species,
     species_form |-> IF SpeciesIsUnown(p.species) THEN p.unown_letter ELSE "None",
     total_encounters |-> 1,
     shiny_encounters |-> IF ~is_shiny(p) THEN 0 ELSE 1,
     catches |-> 0,
     total_highest_iv_sum |-> p.iv_sum,
     total_lowest_iv_sum |-> p.iv_sum,
     total_highest_sv |-> p.shiny_value,
     total_lowest_sv |-> p.shiny_value,
     phase_encounters |-> IF ~is_shiny(p) THEN 1 ELSE 0,
     phase_highest_iv_sum |-> IF ~is_shiny(p) THEN p.iv_sum ELSE NULL,
     phase_lowest_iv_sum |-> IF ~is_shiny(p) THEN p.iv_sum ELSE NULL,
     phase_highest_sv |-> IF ~is_shiny(p) THEN p.shiny_value ELSE NULL,
     phase_lowest_sv |-> IF ~is_shiny(p) THEN p.shiny_value ELSE NULL,
     last_encounter_time |-> encounter.encounter_time]

EncounterSummary_update(summary, encounter) ==
    LET p == encounter.pokemon
        Higher(old, new) == IF old < new THEN new ELSE old
        Lower(old, new) == IF old > new THEN new ELSE old
        PhaseHigher(old, new) == IF old = NULL \/ old < new THEN new ELSE old
        PhaseLower(old, new) == IF old = NULL \/ old > new THEN new ELSE old
    IN [summary EXCEPT
          !.total_encounters = @ + 1,
          !.last_encounter_time = encounter.encounter_time,
          !.total_highest_iv_sum = Higher(@, p.iv_sum),
          !.total_lowest_iv_sum = Lower(@, p.iv_sum),
          !.total_highest_sv = Higher(@, p.shiny_value),
          !.total_lowest_sv = Lower(@, p.shiny_value),
          !.phase_encounters = @ + 1,
          !.phase_highest_iv_sum = PhaseHigher(@, p.iv_sum),
          !.phase_lowest_iv_sum = PhaseLower(@, p.iv_sum),
          !.phase_highest_sv = IF ~is_shiny(p) THEN PhaseHigher(@, p.shiny_value) ELSE @,
          !.phase_lowest_sv = IF ~is_shiny(p) THEN PhaseLower(@, p.shiny_value) ELSE @,
          !.shiny_encounters = IF ~is_shiny(p) THEN @ ELSE @ + 1]

EncounterSummary_update_outcome(summary, outcome) ==
    IF outcome = "Caught" THEN [summary EXCEPT !.catches = @ + 1] ELSE summary

EncounterSummary_is_same_species(summary, pokemon) ==
    /\ pokemon.species = summary.species
    /\ (~SpeciesIsUnown(pokemon.species) \/ pokemon.unown_letter = summary.species_form)

EncounterSummary_species_id_for_database(summary) ==
    IF SpeciesIsUnown(summary.species) /\ summary.species_form # "None"
    THEN UnownOffset + get_unown_index_by_letter(summary.species_form)
    ELSE summary.species

--------------------------------------------------------------------------
(* stats_models.py: ShinyPhase *)

\* The dataclass declares these twenty fields and no other.
ShinyPhase_create(shiny_phase_id, start_time) ==
    [shiny_phase_id |-> shiny_phase_id,
     start_time |-> start_time,
     end_time |-> NULL,
     shiny_encounter |-> None,
     encounters |-> 0,
     highest_iv_sum |-> None,
     lowest_iv_sum |-> None,
     highest_sv |-> None,
     lowest_sv |-> None,
     longest_streak |-> None,
     current_streak |-> None,
     fishing_attempts |-> 0,
     successful_fishing_attempts |-> 0,
     longest_unsuccessful_fishing_streak |-> 0,
     current_unsuccessful_fishing_streak |-> 0,
     pokenav_calls |-> 0,
     snapshot_total_encounters |-> NULL,
     snapshot_total_shiny_encounters |-> NULL,
     snapshot_species_encounters |-> NULL,
     snapshot_species_shiny_encounters |-> NULL]

\* RecordIsLower with <= for <: a later encounter with an equal value takes the record
RecordIsLower_or_equal(record, value) == record = None \/ record.value <= value

\* "highest" records: replaced when there is none yet or the old value < the new one
RecordIsLower(record, value) == record = None \/ record.value < value

\* "lowest" records: replaced when there is none yet or the old value > the new one
RecordIsHigher(record, value) == record = None \/ record.value > value

\* NextStreak without the test for another species-form: the streak only grows
NextStreak_never_reset(current_streak, pokemon) ==
    IF current_streak = None
    THEN SpeciesRecord_create(1, pokemon)
    ELSE [current_streak EXCEPT !.value = @ + 1]

\* current_streak: restarted at 1 by another species-form, else incremented
NextStreak(current_streak, pokemon) ==
    IF current_streak = None \/ ~SpeciesRecord_is_same_species(current_streak, pokemon)
    THEN SpeciesRecord_create(1, pokemon)
    ELSE [current_streak EXCEPT !.value = @ + 1]

\* longest_streak: a copy of current_streak when that is strictly longer
NextLongestStreak(longest_streak, current_streak) ==
    IF longest_streak = None \/ current_streak.value > longest_streak.value
    THEN SpeciesRecord_copy(current_streak)
    ELSE longest_streak

ShinyPhase_update(phase, encounter) ==
    LET p == encounter.pokemon
        streak == NextStreak(phase.current_streak, p)
    IN [phase EXCEPT
          !.encounters = @ + 1,
          !.highest_iv_sum = IF RecordIsLower(@, p.iv_sum)
                             THEN SpeciesRecord_create(p.iv_sum, p) ELSE @,
          !.lowest_iv_sum = IF RecordIsHigher(@, p.iv_sum)
                            THEN SpeciesRecord_create(p.iv_sum, p) ELSE @,
          !.highest_sv = IF ~is_shiny(p) /\ RecordIsLower(@, p.shiny_value)
                         THEN SpeciesRecord_create(p.shiny_value, p) ELSE @,
          !.lowest_sv = IF ~is_shiny(p) /\ RecordIsHigher(@, p.shiny_value)
                        THEN SpeciesRecord_create(p.shiny_value, p) ELSE @,
          !.current_streak = streak,
          !.longest_streak = NextLongestStreak(@, streak)]

\* fishing_attempts += 1 on a phase whose fishing_attempts is None is a TypeError
ShinyPhase_update_fishing_attempt_raises(phase) == phase.fishing_attempts = NULL

ShinyPhase_update_fishing_attempt(phase, result) ==
    IF result # "Encounter"
    THEN LET streak == phase.current_unsuccessful_fishing_streak + 1 IN
         [phase EXCEPT
            !.fishing_attempts = @ + 1,
            !.current_unsuccessful_fishing_streak = streak,
            !.longest_unsuccessful_fishing_streak = IF streak > @ THEN streak ELSE @]
    ELSE [phase EXCEPT
            !.fishing_attempts = @ + 1,
            !.successful_fishing_attempts = @ + 1,
            !.current_unsuccessful_fishing_streak = 0]

RECURSIVE SumOver(_, _, _)
SumOver(summaries, keys, field) ==
    IF keys = {} THEN 0
    ELSE LET k == CHOOSE x \in keys : TRUE
         IN summaries[k][field] + SumOver(summaries, keys \ {k}, field)

ShinyPhase_update_snapshot(phase, summaries) ==
    LET same == { k \in DOMAIN summaries :
                    EncounterSummary_is_same_species(summaries[k], phase.shiny_encounter.pokemon) }
        \* the loop runs in key order; the last matching summary is the one kept
        last == CHOOSE k \in same : \A j \in same : j <= k
    IN [phase EXCEPT
          !.snapshot_total_encounters = SumOver(summaries, DOMAIN summaries, "total_encounters"),
          !.snapshot_total_shiny_encounters = SumOver(summaries, DOMAIN summaries, "shiny_encounters"),
          !.snapshot_species_encounters =
              IF same = {} THEN @ ELSE summaries[last].total_encounters,
          !.snapshot_species_shiny_encounters =
              IF same = {} THEN @ ELSE summaries[last].shiny_encounters]


--------------------------------------------------------------------------
(* stats.py: the store.  A row is a record of its columns. *)

EmptyStore == [encounters |-> {}, shiny_phases |-> {}, encounter_summaries |-> <<>>]

MaxOf(set) == CHOOSE x \in set : \A y \in set : y <= x

EncounterRow(encounter) ==
    [encounter_id |-> encounter.encounter_id,
     species_id |-> Encounter_species_id(encounter),
     shiny_phase_id |-> encounter.shiny_phase_id,
     is_shiny |-> is_shiny(encounter.pokemon),
     encounter_time |-> encounter.encounter_time,
     outcome |-> "None",
     data |-> encounter.pokemon]

Encounter_from_row_data(row) ==
    [encounter_id |-> row.encounter_id, shiny_phase_id |-> row.shiny_phase_id,
     encounter_time |-> row.encounter_time, outcome |-> row.outcome, pokemon |-> row.data]

\* INSERT INTO shiny_phases (shiny_phase_id, start_time): the other columns
\* take the defaults of CREATE TABLE / ALTER TABLE in _update_schema
ShinyPhaseRow(shiny_phase_id, start_time) ==
    [shiny_phase_id |-> shiny_phase_id,
     start_time |-> start_time,
     end_time |-> NULL,
     shiny_encounter_id |-> NULL,
     encounters |-> 0,
     anti_shiny_encounters |-> 0,
     highest_iv_sum |-> NULL, highest_iv_sum_species |-> NULL,
     lowest_iv_sum |-> NULL, lowest_iv_sum_species |-> NULL,
     highest_sv |-> NULL, highest_sv_species |-> NULL,
     lowest_sv |-> NULL, lowest_sv_species |-> NULL,
     longest_streak |-> 0, longest_streak_species |-> NULL,
     current_streak |-> 0, current_streak_species |-> NULL,
     fishing_attempts |-> 0,
     successful_fishing_attempts |-> 0,
     longest_unsuccessful_fishing_streak |-> 0,
     current_unsuccessful_fishing_streak |-> 0,
     pokenav_calls |-> 0,
     snapshot_total_encounters |-> NULL,
     snapshot_total_shiny_encounters |-> NULL,
     snapshot_species_encounters |-> NULL,
     snapshot_species_shiny_encounters |-> NULL]

\* the phase columns of the SELECT in _query_shiny_phases, in its order (row[0] .. row[26])
SelectShinyPhaseColumns(r) ==
    <<r.shiny_phase_id, r.start_time, r.end_time, r.shiny_encounter_id, r.encounters,
      r.anti_shiny_encounters,
      r.highest_iv_sum, r.highest_iv_sum_species, r.lowest_iv_sum, r.lowest_iv_sum_species,
      r.highest_sv, r.highest_sv_species, r.lowest_sv, r.lowest_sv_species,
      r.longest_streak, r.longest_streak_species, r.current_streak, r.current_streak_species,
      r.fishing_attempts, r.successful_fishing_attempts,
      r.longest_unsuccessful_fishing_streak, r.current_unsuccessful_fishing_streak,
      r.pokenav_calls,
      r.snapshot_total_encounters, r.snapshot_total_shiny_encounters,
      r.snapshot_species_encounters, r.snapshot_species_shiny_encounters>>

\* row[i] of the source is Col(row, i)
Col(row, i) == row[i + 1]

ShinyPhase_from_row_data(row, shiny_encounter) ==
    [shiny_phase_id |-> Col(row, 0),
     start_time |-> Col(row, 1),
     end_time |-> Col(row, 2),
     shiny_encounter |-> shiny_encounter,
     encounters |-> Col(row, 4),
     highest_iv_sum |-> SpeciesRecord_from_row_values(Col(row, 5), Col(row, 6)),
     lowest_iv_sum |-> SpeciesRecord_from_row_values(Col(row, 7), Col(row, 8)),
     highest_sv |-> SpeciesRecord_from_row_values(Col(row, 9), Col(row, 10)),
     lowest_sv |-> SpeciesRecord_from_row_values(Col(row, 11), Col(row, 12)),
     longest_streak |-> SpeciesRecord_from_row_values(Col(row, 13), Col(row, 14)),
     current_streak |-> SpeciesRecord_from_row_values(Col(row, 15), Col(row, 16)),
     fishing_attempts |-> Col(row, 17),
     successful_fishing_attempts |-> Col(row, 18),
     longest_unsuccessful_fishing_streak |-> Col(row, 19),
     current_unsuccessful_fishing_streak |-> Col(row, 20),
     pokenav_calls |-> Col(row, 21),
     snapshot_total_encounters |-> Col(row, 22),
     snapshot_total_shiny_encounters |-> Col(row, 23),
     snapshot_species_encounters |-> Col(row, 24),
     snapshot_species_shiny_encounters |-> Col(row, 25)]

\* _query_shiny_phases: LEFT JOIN encounters ON encounter_id = shiny_encounter_id
query_shiny_phase(store, r) ==
    LET joined == { e \in store.encounters : e.encounter_id = r.shiny_encounter_id }
        encounter == IF joined = {} THEN None
                     ELSE Encounter_from_row_data(CHOOSE e \in joined : TRUE)
    IN ShinyPhase_from_row_data(SelectShinyPhaseColumns(r), encounter)

get_current_shiny_phase(store) ==
    LET open == { r \in store.shiny_phases : r.end_time = NULL }
    IN IF open = {} THEN None
       ELSE query_shiny_phase(store,
              CHOOSE r \in open : \A q \in open : q.shiny_phase_id <= r.shiny_phase_id)

\* ORDER BY encounters ASC LIMIT 1; among equal counts the row first inserted
get_shortest_shiny_phase(store) ==
    LET closed == { r \in store.shiny_phases : r.end_time # NULL }
        least == { r \in closed : \A q \in closed : r.encounters <= q.encounters }
    IN IF closed = {} THEN None
       ELSE query_shiny_phase(store,
              CHOOSE r \in least : \A q \in least : r.shiny_phase_id <= q.shiny_phase_id)

get_longest_shiny_phase(store) ==
    LET closed == { r \in store.shiny_phases : r.end_time # NULL }
        most == { r \in closed : \A q \in closed : r.encounters >= q.encounters }
    IN IF closed = {} THEN None
       ELSE query_shiny_phase(store,
              CHOOSE r \in most : \A q \in most : r.shiny_phase_id <= q.shiny_phase_id)

get_next_encounter_id(store) ==
    IF store.encounters = {} THEN 1
    ELSE MaxOf({ e.encounter_id : e \in store.encounters }) + 1

get_next_shiny_phase_id(store) ==
    IF store.shiny_phases = {} THEN 1
    ELSE MaxOf({ r.shiny_phase_id : r \in store.shiny_phases }) + 1

get_last_encounter(store) ==
    IF store.encounters = {} THEN None
    ELSE Encounter_from_row_data(
           CHOOSE e \in store.encounters : \A q \in store.encounters : q.encounter_id <= e.encounter_id)

\* encounter_summaries rows are kept as the summaries they were written from,
\* under the key species_id; on reading, species and form come from the key
get_encounter_summaries(store) ==
    [k \in DOMAIN store.encounter_summaries |->
        [store.encounter_summaries[k] EXCEPT
            !.species = get_species_by_index(k),
            !.species_form = IF k >= UnownOffset /\ k < UnownOffset + 100
                             THEN get_unown_letter_by_index(k - UnownOffset) ELSE "None"]]

insert_shiny_phase(store, phase) ==
    [store EXCEPT !.shiny_phases = @ \cup {ShinyPhaseRow(phase.shiny_phase_id, phase.start_time)}]

\* The parameter tuple of _update_shiny_phase reads shiny_phase.anti_shiny_encounters
\* before anything is written: on an object without that attribute the call ends
\* in an AttributeError and writes nothing.
update_shiny_phase_raises(phase) == "anti_shiny_encounters" \notin DOMAIN phase

RecordValue(record) == IF record # None THEN record.value ELSE NULL
RecordSpecies(record) == IF record # None THEN SpeciesRecord_species_id_for_database(record) ELSE NULL

update_shiny_phase(store, phase) ==
    LET Written(r) ==
          [r EXCEPT
             !.encounters = phase.encounters,
             !.anti_shiny_encounters = phase.anti_shiny_encounters,
             !.highest_iv_sum = RecordValue(phase.highest_iv_sum),
             !.highest_iv_sum_species = RecordSpecies(phase.highest_iv_sum),
             !.lowest_iv_sum = RecordValue(phase.lowest_iv_sum),
             !.lowest_iv_sum_species =
                 IF phase.lowest_iv_sum # None
                 THEN SpeciesRecord_species_id_for_database(phase.highest_iv_sum) ELSE NULL,
             !.highest_sv = RecordValue(phase.highest_sv),
             !.highest_sv_species = RecordSpecies(phase.highest_sv),
             !.lowest_sv = RecordValue(phase.lowest_sv),
             !.lowest_sv_species = RecordSpecies(phase.lowest_sv),
             !.longest_streak = RecordValue(phase.longest_streak),
             !.longest_streak_species = RecordSpecies(phase.longest_streak),
             !.current_streak = RecordValue(phase.current_streak),
             !.current_streak_species = RecordSpecies(phase.current_streak),
             !.fishing_attempts = phase.fishing_attempts,
             !.successful_fishing_attempts = phase.successful_fishing_attempts,
             !.longest_unsuccessful_fishing_streak = phase.longest_unsuccessful_fishing_streak,
             !.current_unsuccessful_fishing_streak = phase.current_unsuccessful_fishing_streak,
             !.pokenav_calls = phase.pokenav_calls,
             !.snapshot_total_encounters = phase.snapshot_total_encounters,
             !.snapshot_total_shiny_encounters = phase.snapshot_total_shiny_encounters,
             !.snapshot_species_encounters = phase.snapshot_species_encounters,
             !.snapshot_species_shiny_encounters = phase.snapshot_species_shiny_encounters]
    IN [store EXCEPT !.shiny_phases =
          { IF r.shiny_phase_id = phase.shiny_phase_id THEN Written(r) ELSE r : r \in @ }]

ResetPhaseOfSummary(summary) ==
    [summary EXCEPT !.phase_encounters = 0,
                    !.phase_highest_iv_sum = NULL, !.phase_lowest_iv_sum = NULL,
                    !.phase_highest_sv = NULL, !.phase_lowest_sv = NULL]

reset_phase_in_database(store, encounter, shiny_phase_id) ==
    [store EXCEPT
       !.shiny_phases =
          { IF r.shiny_phase_id = shiny_phase_id
            THEN [r EXCEPT !.end_time = encounter.encounter_time,
                           !.shiny_encounter_id = encounter.encounter_id]
            ELSE r : r \in @ },
       !.encounter_summaries = [k \in DOMAIN @ |-> ResetPhaseOfSummary(@[k])]]

\* REPLACE INTO encounter_summaries, keyed by species_id_for_database
insert_or_update_encounter_summary(store, summary) ==
    LET key == EncounterSummary_species_id_for_database(summary)
        old == store.encounter_summaries
    IN [store EXCEPT !.encounter_summaries =
          [k \in DOMAIN old \cup {key} |-> IF k = key THEN summary ELSE old[k]]]

update_encounter_outcome(store, encounter) ==
    [store EXCEPT !.encounters =
       { IF e.encounter_id = encounter.encounter_id
         THEN [e EXCEPT !.outcome = encounter.outcome] ELSE e : e \in @ }]


--------------------------------------------------------------------------
(* stats.py: StatsDatabase.  An operation maps the state of the engine to  *)
(* the state it leaves and the way it ends: "returned", "raised" (an       *)
(* exception reaches the caller) or "exit" (sys.exit(1)).                  *)

Engine ==
    [disk |-> disk, db |-> db, running |-> running,
     last_encounter |-> last_encounter,
     last_fishing_attempt |-> last_fishing_attempt,
     last_shiny_species_phase_encounters |-> last_shiny_species_phase_encounters,
     current_shiny_phase |-> current_shiny_phase,
     shortest_shiny_phase |-> shortest_shiny_phase,
     longest_shiny_phase |-> longest_shiny_phase,
     next_encounter_id |-> next_encounter_id,
     encounter_summaries |-> encounter_summaries,
     encounter_timestamps |-> encounter_timestamps,
     encounter_rate |-> encounter_rate]

Returned(s) == [state |-> s, how |-> "returned"]
Raised(s) == [state |-> s, how |-> "raised"]
Exited(s) == [state |-> [s EXCEPT !.running = FALSE], how |-> "exit"]

commit(s) == [s EXCEPT !.disk = s.db]

\* __init__ on a store that is at the current schema version: the caches are
\* read from what is committed; an open transaction of the previous process is lost
construct(store) ==
    [disk |-> store, db |-> store, running |-> TRUE,
     last_encounter |-> get_last_encounter(store),
     last_fishing_attempt |-> "None",
     last_shiny_species_phase_encounters |-> NULL,
     current_shiny_phase |-> get_current_shiny_phase(store),
     shortest_shiny_phase |-> get_shortest_shiny_phase(store),
     longest_shiny_phase |-> get_longest_shiny_phase(store),
     next_encounter_id |-> get_next_encounter_id(store),
     encounter_summaries |-> get_encounter_summaries(store),
     encounter_timestamps |-> <<>>,
     encounter_rate |-> 0]

\* deque(maxlen = encounter_buffer_size).append
DequeAppend(deque, x) ==
    IF Len(deque) < encounter_buffer_size THEN Append(deque, x) ELSE Append(Tail(deque), x)

\* int(3600 / (diff / (n - 1))) when the average is positive, else 0
RateOf(stamps, old_rate) ==
    IF Len(stamps) > 1
    THEN IF stamps[Len(stamps)] - stamps[1] > 0
         THEN (SecondsPerHour * (Len(stamps) - 1)) \div (stamps[Len(stamps)] - stamps[1])
         ELSE 0
    ELSE old_rate

update_encounter_rates(s, time) ==
    [s EXCEPT !.encounter_timestamps = DequeAppend(@, time),
              !.encounter_rate = RateOf(DequeAppend(s.encounter_timestamps, time), @)]

\* a phase whose shiny_encounter is the object last_encounter sees its new outcome
AliasOutcome(phase, old, encounter) ==
    IF phase # None /\ phase.shiny_encounter = old
    THEN [phase EXCEPT !.shiny_encounter = encounter] ELSE phase

\* last_encounter.outcome = battle_outcome; _update_encounter_outcome(last_encounter)
set_last_outcome(s, encounter) ==
    [s EXCEPT !.last_encounter = encounter,
              !.current_shiny_phase = AliasOutcome(@, s.last_encounter, encounter),
              !.shortest_shiny_phase = AliasOutcome(@, s.last_encounter, encounter),
              !.longest_shiny_phase = AliasOutcome(@, s.last_encounter, encounter),
              !.db = update_encounter_outcome(@, encounter)]

\* _encounter_summaries[key] = summary; _insert_or_update_encounter_summary(summary)
put_summary(s, key, summary) ==
    [s EXCEPT !.encounter_summaries =
                 [k \in DOMAIN @ \cup {key} |-> IF k = key THEN summary ELSE @[k]],
              !.db = insert_or_update_encounter_summary(@, summary)]

update_summary_outcome(s, key, battle_outcome, is_of_interest) ==
    IF key \in DOMAIN s.encounter_summaries /\ is_of_interest
    THEN put_summary(s, key,
                     EncounterSummary_update_outcome(s.encounter_summaries[key], battle_outcome))
    ELSE s

log_end_of_battle(s, battle_outcome, is_of_interest) ==
    IF s.last_encounter = None THEN Returned(s)
    ELSE Returned(commit(update_summary_outcome(
                    set_last_outcome(s, [s.last_encounter EXCEPT !.outcome = battle_outcome]),
                    Encounter_species_id(s.last_encounter), battle_outcome, is_of_interest)))

\* log_encounter, the part before the Encounter is built: a phase is opened when none is
with_new_phase(s, phase) ==
    [s EXCEPT !.current_shiny_phase = phase, !.db = insert_shiny_phase(@, phase)]

open_phase_if_none(s, time) ==
    IF s.current_shiny_phase = None
    THEN with_new_phase(s, ShinyPhase_create(get_next_shiny_phase_id(s.db), time))
    ELSE s

\* log_encounter, the summary of the species-form: created or updated, then written
update_summary(s, species_index, encounter) ==
    put_summary(s, species_index,
                IF species_index \notin DOMAIN s.encounter_summaries
                THEN EncounterSummary_create(encounter)
                ELSE EncounterSummary_update(s.encounter_summaries[species_index], encounter))

finish_log_encounter(s, info) ==
    IF info.battle_outcome # "None"
    THEN log_end_of_battle(s, info.battle_outcome, info.is_of_interest)
    ELSE Returned(s)

\* log_encounter from _update_shiny_phase on; the phase has been updated in memory
log_encounter_write(s, encounter, info) ==
    IF update_shiny_phase_raises(s.current_shiny_phase) THEN Raised(s)
    ELSE finish_log_encounter(
           [commit(update_summary([s EXCEPT !.db = update_shiny_phase(@, s.current_shiny_phase)],
                                  SpeciesIndexOf(encounter.pokemon), encounter))
              EXCEPT !.next_encounter_id = @ + 1],
           info)

\* log_encounter from the Encounter on; s has an open phase
log_encounter_built(s, encounter, info, insert) ==
    IF insert /\ \E e \in s.db.encounters : e.encounter_id = encounter.encounter_id
    THEN Exited([s EXCEPT !.last_encounter = encounter])   \* IntegrityError: sys.exit(1)
    ELSE log_encounter_write(
           [s EXCEPT !.last_encounter = encounter,
                     !.db.encounters = IF insert THEN @ \cup {EncounterRow(encounter)} ELSE @,
                     !.current_shiny_phase = ShinyPhase_update(@, encounter)],
           encounter, info)

log_encounter_in_phase(s, info, config_log_encounters) ==
    log_encounter_built(s,
        Encounter(s.next_encounter_id, s.current_shiny_phase.shiny_phase_id,
                  info.encounter_time, info.pokemon),
        info, config_log_encounters \/ info.is_of_interest)

\* info: [pokemon, encounter_time, is_of_interest, battle_outcome]
log_encounter(s, info, config_log_encounters) ==
    log_encounter_in_phase(
        open_phase_if_none(update_encounter_rates(s, info.encounter_time), info.encounter_time),
        info, config_log_encounters)

ClearedPhase(phase, time) ==
    [phase EXCEPT
       !.start_time = time,
       !.shiny_encounter = [int |-> 0],
       !.encounters = 0,
       !.highest_iv_sum = None, !.lowest_iv_sum = None,
       !.highest_sv = None, !.lowest_sv = None,
       !.longest_streak = None, !.current_streak = None,
       !.fishing_attempts = 0,
       !.successful_fishing_attempts = 0,
       !.longest_unsuccessful_fishing_streak = 0,
       !.current_unsuccessful_fishing_streak = 0,
       !.pokenav_calls = 0]

\* UPDATE shiny_phases SET start_time; UPDATE encounter_summaries SET phase_... = 0 / NULL
clear_phase_in_database(store, phase) ==
    [store EXCEPT
       !.shiny_phases = { IF r.shiny_phase_id = phase.shiny_phase_id
                          THEN [r EXCEPT !.start_time = phase.start_time] ELSE r : r \in @ },
       !.encounter_summaries = [k \in DOMAIN @ |-> ResetPhaseOfSummary(@[k])]]

\* clear_current_shiny_phase from _update_shiny_phase on
clear_write(s) ==
    IF update_shiny_phase_raises(s.current_shiny_phase) THEN Raised(s)
    ELSE Returned(commit(
           [s EXCEPT
              !.db = clear_phase_in_database(update_shiny_phase(@, s.current_shiny_phase),
                                             s.current_shiny_phase),
              !.encounter_summaries = [k \in DOMAIN @ |-> ResetPhaseOfSummary(@[k])]]))

\* clear_current_shiny_phase were it to zero the totals with the phase fields
clear_current_shiny_phase_zeroing_totals(s, time) ==
    IF s.current_shiny_phase = None THEN Returned(s)
    ELSE clear_write([s EXCEPT
           !.current_shiny_phase = ClearedPhase(@, time),
           !.encounter_summaries = [k \in DOMAIN @ |-> [@[k] EXCEPT !.total_encounters = 0]]])

clear_current_shiny_phase(s, time) ==
    IF s.current_shiny_phase = None THEN Returned(s)
    ELSE clear_write([s EXCEPT !.current_shiny_phase = ClearedPhase(@, time)])

SameSpeciesKeys(summaries, pokemon) ==
    { k \in DOMAIN summaries : EncounterSummary_is_same_species(summaries[k], pokemon) }

\* reset_shiny_phase from _update_shiny_phase on; current_shiny_phase is closed in memory
reset_write(s, encounter) ==
    IF update_shiny_phase_raises(s.current_shiny_phase) THEN Raised(s)
    ELSE Returned(commit(
           [s EXCEPT
              !.db = reset_phase_in_database(update_shiny_phase(@, s.current_shiny_phase),
                                             encounter, s.current_shiny_phase.shiny_phase_id),
              !.shortest_shiny_phase =
                  IF @ = None \/ s.current_shiny_phase.encounters < @.encounters
                  THEN s.current_shiny_phase ELSE @,
              !.longest_shiny_phase =
                  IF @ = None \/ s.current_shiny_phase.encounters > @.encounters
                  THEN s.current_shiny_phase ELSE @,
              !.current_shiny_phase = None,
              !.last_shiny_species_phase_encounters =
                  IF SameSpeciesKeys(s.encounter_summaries, encounter.pokemon) = {} THEN @
                  ELSE s.encounter_summaries[
                         MaxOf(SameSpeciesKeys(s.encounter_summaries, encounter.pokemon))
                       ].phase_encounters,
              !.encounter_summaries = [k \in DOMAIN @ |-> ResetPhaseOfSummary(@[k])]]))

reset_shiny_phase(s, encounter) ==
    IF s.current_shiny_phase = None THEN Raised(s)     \* attribute of None
    ELSE reset_write(
           [s EXCEPT !.current_shiny_phase =
              ShinyPhase_update_snapshot(
                 [@ EXCEPT !.shiny_encounter = encounter, !.end_time = encounter.encounter_time],
                 s.encounter_summaries)],
           encounter)

\* write_phase were its UPDATE to name no row: every row takes the counters
write_phase_every_row(s) ==
    Returned(commit(
       [s EXCEPT !.db.shiny_phases =
           { [r EXCEPT !.pokenav_calls = s.current_shiny_phase.pokenav_calls,
                       !.fishing_attempts = s.current_shiny_phase.fishing_attempts] : r \in @ }]))

\* _update_shiny_phase(current_shiny_phase); _commit()
write_phase(s) ==
    IF update_shiny_phase_raises(s.current_shiny_phase) THEN Raised(s)
    ELSE Returned(commit([s EXCEPT !.db = update_shiny_phase(@, s.current_shiny_phase)]))

\* log_fishing_attempt with a phase open
fishing_in_phase(s, result) ==
    IF ShinyPhase_update_fishing_attempt_raises(s.current_shiny_phase) THEN Raised(s)
    ELSE IF result = "Encounter"
    THEN Returned([s EXCEPT !.current_shiny_phase = ShinyPhase_update_fishing_attempt(@, result)])
    ELSE write_phase([s EXCEPT !.current_shiny_phase = ShinyPhase_update_fishing_attempt(@, result)])

log_fishing_attempt(s, result) ==
    IF s.current_shiny_phase = None
    THEN Returned([s EXCEPT !.last_fishing_attempt = result])
    ELSE fishing_in_phase([s EXCEPT !.last_fishing_attempt = result], result)

log_pokenav_call(s) ==
    IF s.current_shiny_phase = None THEN Returned(s)
    ELSE write_phase([s EXCEPT !.current_shiny_phase.pokenav_calls = @ + 1])

--------------------------------------------------------------------------
(* stats.py: the schema of stats.db and its migration *)

current_schema_version == 3

\* a store file that does not exist yet
NoSchema == [tables |-> <<>>, version_rows |-> <<>>, base_data_rows |-> <<>>]

encounter_summaries_columns ==
    <<"species_id", "species_name", "total_encounters", "shiny_encounters", "catches",
      "total_highest_iv_sum", "total_lowest_iv_sum", "total_highest_sv", "total_lowest_sv",
      "phase_encounters", "phase_highest_iv_sum", "phase_lowest_iv_sum", "phase_highest_sv",
      "phase_lowest_sv", "last_encounter_time">>

shiny_phases_columns ==
    <<"shiny_phase_id", "start_time", "end_time", "shiny_encounter_id", "encounters",
      "highest_iv_sum", "highest_iv_sum_species", "lowest_iv_sum", "lowest_iv_sum_species",
      "highest_sv", "highest_sv_species", "lowest_sv", "lowest_sv_species",
      "longest_streak", "longest_streak_species", "current_streak", "current_streak_species",
      "fishing_attempts", "successful_fishing_attempts",
      "longest_unsuccessful_fishing_streak", "current_unsuccessful_fishing_streak",
      "snapshot_total_encounters", "snapshot_total_shiny_encounters",
      "snapshot_species_encounters", "snapshot_species_shiny_encounters">>

encounters_columns ==
    <<"encounter_id", "species_id", "personality_value", "shiny_phase_id", "is_shiny",
      "is_roamer", "matching_custom_catch_filters", "encounter_time", "map", "coordinates",
      "bot_mode", "type", "outcome", "data">>

pickup_items_columns == <<"item_id", "item_name", "times_picked_up">>

\* The statements of _update_schema act on r = [schema, ok, version_writes]; once a statement has
\* failed (sqlite3.OperationalError, re-raised by _execute_write) the rest is not run.
create_table(r, name, columns) ==
    IF ~r.ok THEN r
    ELSE IF name \in DOMAIN r.schema.tables THEN [r EXCEPT !.ok = FALSE]
    ELSE [r EXCEPT !.schema.tables =
            [t \in DOMAIN @ \cup {name} |-> IF t = name THEN columns ELSE @[t]]]

drop_table(r, name) ==
    IF ~r.ok THEN r
    ELSE IF name \notin DOMAIN r.schema.tables THEN [r EXCEPT !.ok = FALSE]
    ELSE [r EXCEPT !.schema.tables = [t \in DOMAIN @ \ {name} |-> @[t]]]

add_column(r, name, column) ==
    IF ~r.ok THEN r
    ELSE IF name \notin DOMAIN r.schema.tables THEN [r EXCEPT !.ok = FALSE]
    ELSE IF \E i \in 1..Len(r.schema.tables[name]) : r.schema.tables[name][i] = column
    THEN [r EXCEPT !.ok = FALSE]
    ELSE [r EXCEPT !.schema.tables[name] = Append(@, column)]

\* if from_schema_version <= 0: the six CREATE TABLE statements
create_all_tables(r) ==
    create_table(
      create_table(
        create_table(
          create_table(
            create_table(
              create_table(r, "schema_version", <<"version">>),
              "base_data", <<"data_key INT", "value">>),
            "encounter_summaries", encounter_summaries_columns),
          "shiny_phases", shiny_phases_columns),
        "encounters", encounters_columns),
      "pickup_items", pickup_items_columns)

\* DROP TABLE base_data: its rows go with it
drop_base_data(r) ==
    IF ~r.ok \/ "base_data" \notin DOMAIN r.schema.tables
    THEN drop_table(r, "base_data")
    ELSE [drop_table(r, "base_data") EXCEPT !.schema.base_data_rows = <<>>]

\* if from_schema_version <= 1: pokenav_calls, and base_data again with a text key
add_pokenav_calls(r) ==
    create_table(drop_base_data(add_column(r, "shiny_phases", "pokenav_calls")),
                 "base_data", <<"data_key TEXT", "value">>)

\* if from_schema_version <= 2
add_anti_shiny_encounters(r) == add_column(r, "shiny_phases", "anti_shiny_encounters")

\* the block for from_schema_version <= 1 run only for version 1 itself
SchemaBlock1_only_from_1(r, from_schema_version) ==
    IF from_schema_version = 1 THEN add_pokenav_calls(r) ELSE r

SchemaBlock1(r, from_schema_version) ==
    IF from_schema_version <= 1 THEN add_pokenav_calls(r) ELSE r

SchemaBlocks(r, from_schema_version) ==
    IF from_schema_version <= 2
    THEN add_anti_shiny_encounters(
           SchemaBlock1(IF from_schema_version <= 0 THEN create_all_tables(r) ELSE r,
                        from_schema_version))
    ELSE SchemaBlock1(IF from_schema_version <= 0 THEN create_all_tables(r) ELSE r,
                      from_schema_version)

\* DELETE FROM schema_version; INSERT INTO schema_version VALUES (3); commit
write_schema_version(r) ==
    IF ~r.ok THEN r
    ELSE IF "schema_version" \notin DOMAIN r.schema.tables THEN [r EXCEPT !.ok = FALSE]
    ELSE [r EXCEPT !.schema.version_rows = <<current_schema_version>>,
                   !.version_writes = @ + 2]

update_schema(schema, from_schema_version) ==
    write_schema_version(SchemaBlocks([schema |-> schema, ok |-> TRUE, version_writes |-> 0], from_schema_version))

get_schema_version(schema) ==
    IF "schema_version" \notin DOMAIN schema.tables THEN 0
    ELSE IF schema.version_rows = <<>> THEN 0
    ELSE schema.version_rows[1]

\* open_schema without the test for a newer store: it is taken as current
open_schema_accepts_newer(schema) ==
    IF get_schema_version(schema) < current_schema_version
    THEN update_schema(schema, get_schema_version(schema))
    ELSE [schema |-> schema, ok |-> TRUE, version_writes |-> 0]

\* open_schema with <= for <: a store of the current version is updated again
open_schema_always_updates(schema) ==
    IF get_schema_version(schema) <= current_schema_version
    THEN update_schema(schema, get_schema_version(schema))
    ELSE [schema |-> schema, ok |-> FALSE, version_writes |-> 0]

\* __init__, lines 47-55: the schema is updated when it is older than the code
open_schema(schema) ==
    IF get_schema_version(schema) < current_schema_version
    THEN update_schema(schema, get_schema_version(schema))
    ELSE IF get_schema_version(schema) > current_schema_version
    THEN [schema |-> schema, ok |-> FALSE, version_writes |-> 0]           \* StatsDatabaseSchemaTooNew
    ELSE [schema |-> schema, ok |-> TRUE, version_writes |-> 0]

\* the store as the releases with schema 1, 2, 3 and a later one left it
SchemaOfVersion1 ==
    [create_all_tables([schema |-> NoSchema, ok |-> TRUE, version_writes |-> 0]).schema EXCEPT !.version_rows = <<1>>]

SchemaOfVersion2 ==
    [add_pokenav_calls([schema |-> SchemaOfVersion1, ok |-> TRUE, version_writes |-> 0]).schema
       EXCEPT !.version_rows = <<2>>]

SchemaOfVersion(v) ==
    IF v = 0 THEN NoSchema
    ELSE IF v = 1 THEN SchemaOfVersion1
    ELSE IF v = 2 THEN SchemaOfVersion2
    ELSE [add_anti_shiny_encounters([schema |-> SchemaOfVersion2, ok |-> TRUE, version_writes |-> 0]).schema
            EXCEPT !.version_rows = <<v>>]

\* the test of line 50 without db_schema_version == 0
runs_legacy_import_from_any_older(db_schema_version, stats_is_dir) ==
    db_schema_version < current_schema_version /\ stats_is_dir

\* __init__, lines 48 and 50: _migrate_old_stats is called after _update_schema,
\* when the store had no schema and profile.path / "stats" is a directory
runs_legacy_import(db_schema_version, stats_is_dir) ==
    db_schema_version = 0 /\ stats_is_dir

\* stats/shiny_log.json of the profile: the Pokemon of its entries
LegacyShinyLog == <<Pokemon(25, "", 50, 3), Pokemon(UnownSpecies, "B", 50, 3)>>

\* migrate_file_based_stats_to_sqlite replays the legacy entries through
\* _insert_encounter and the other insertion primitives it is handed, and
\* commits through _connection.commit.  `durable` is the number of entries
\* whose rows are committed when it ends; only the rows of encounters are kept.
migrate_old_stats(store, durable) ==
    [store EXCEPT !.encounters =
        @ \cup { EncounterRow(Encounter(i, i, 0, LegacyShinyLog[i])) : i \in 1..durable }]

\* the ways the importer can end: returned with every entry durable, or an
\* exception after some of them
LegacyImportOutcomes ==
    { [durable |-> d, ok |-> ok] : d \in 0..Len(LegacyShinyLog), ok \in BOOLEAN }
        \ { [durable |-> d, ok |-> TRUE] : d \in 0..(Len(LegacyShinyLog) - 1) }

\* no StatsDatabase object: the process has ended or __init__ has raised
NoEngine(store) ==
    [disk |-> store, db |-> store, running |-> FALSE,
     last_encounter |-> None,
     last_fishing_attempt |-> "None",
     last_shiny_species_phase_encounters |-> NULL,
     current_shiny_phase |-> None,
     shortest_shiny_phase |-> None,
     longest_shiny_phase |-> None,
     next_encounter_id |-> 1,
     encounter_summaries |-> <<>>,
     encounter_timestamps |-> <<>>,
     encounter_rate |-> 0]

--------------------------------------------------------------------------
(* stats.py: _execute_write, _commit and _handle_sqlite_error *)

\* what self._cursor.execute or self._connection.commit raises: the class of
\* the exception, its sqlite_errorname and the column its message names
NoException == [class |-> "None", sqlite_errorname |-> "SQLITE_OK", column |-> ""]

DuplicateEncounterId ==
    [class |-> "IntegrityError", sqlite_errorname |-> "SQLITE_CONSTRAINT_PRIMARYKEY",
     column |-> "encounters.encounter_id"]

Busy == [class |-> "OperationalError", sqlite_errorname |-> "SQLITE_BUSY", column |-> ""]

\* errors that come from outside the statement: the file is locked by another
\* process, the disk is full, the file is damaged
EnvironmentExceptions ==
    { Busy,
      [class |-> "OperationalError", sqlite_errorname |-> "SQLITE_FULL", column |-> ""],
      [class |-> "DatabaseError", sqlite_errorname |-> "SQLITE_CORRUPT", column |-> ""] }

\* _handle_sqlite_error: sys.exit(1), or it returns and the caller re-raises
handle_sqlite_error(exception) ==
    IF exception.sqlite_errorname = "SQLITE_BUSY" THEN "exit"
    ELSE IF /\ exception.sqlite_errorname = "SQLITE_CONSTRAINT_PRIMARYKEY"
            /\ exception.column = "encounters.encounter_id"
    THEN "exit"
    ELSE "return"

\* _execute_write: `written` is the store the statement leaves when it succeeds;
\* a statement that fails changes nothing
execute_write(s, written, exception) ==
    IF exception = NoException THEN Returned([s EXCEPT !.db = written])
    ELSE IF /\ exception.class \in {"OperationalError", "IntegrityError"}
            /\ handle_sqlite_error(exception) = "exit"
    THEN Exited(s)
    ELSE Raised(s)

\* _commit: only sqlite3.OperationalError is handled; a commit that fails
\* leaves the transaction open
commit_write(s, exception) ==
    IF exception = NoException THEN Returned(commit(s))
    ELSE IF exception.class = "OperationalError" /\ handle_sqlite_error(exception) = "exit"
    THEN Exited(s)
    ELSE Raised(s)

\* _update_schema, line 927: self._connection.commit() is called as it is,
\* not through _commit, so whatever it raises reaches the caller of __init__
commit_schema(s, exception) ==
    IF exception = NoException THEN Returned(commit(s)) ELSE Raised(s)

\* what a statement of _update_schema raises on a table or column that exists
SchemaStatementError ==
    [class |-> "OperationalError", sqlite_errorname |-> "SQLITE_ERROR", column |-> ""]

\* INSERT INTO shiny_phases / encounters: the primary key must be new
insert_shiny_phase_exception(store, shiny_phase_id) ==
    IF \E r \in store.shiny_phases : r.shiny_phase_id = shiny_phase_id
    THEN [class |-> "IntegrityError", sqlite_errorname |-> "SQLITE_CONSTRAINT_PRIMARYKEY",
          column |-> "shiny_phases.shiny_phase_id"]
    ELSE NoException

insert_encounter_exception(store, encounter_id) ==
    IF \E e \in store.encounters : e.encounter_id = encounter_id
    THEN DuplicateEncounterId
    ELSE NoException

\* _insert_encounter and _insert_shiny_phase, `injected` being an error from outside
insert_encounter(s, encounter, injected) ==
    execute_write(s, [s.db EXCEPT !.encounters = @ \cup {EncounterRow(encounter)}],
                  IF injected # NoException THEN injected
                  ELSE insert_encounter_exception(s.db, encounter.encounter_id))

insert_shiny_phase_write(s, phase, injected) ==
    execute_write(s, insert_shiny_phase(s.db, phase),
                  IF injected # NoException THEN injected
                  ELSE insert_shiny_phase_exception(s.db, phase.shiny_phase_id))

--------------------------------------------------------------------------
(* web/state.py: _update_via_work_queue, and the callbacks of work_queue *)

\* what update_callback can read from the emulator into the cache entry
CacheValues == {1, 2}

\* the values of maximum_age_in_frames the endpoints pass: the default, and 1
MaximumAges == {5, 1}

\* line 39 read as its docstring words it ("younger than or equal")
is_up_to_date_or_equal(state_cache_entry, maximum_age_in_frames) ==
    state_cache_entry.age_in_frames <= maximum_age_in_frames

\* line 39: the entry needs no refresh
is_up_to_date(state_cache_entry, maximum_age_in_frames) ==
    state_cache_entry.age_in_frames < maximum_age_in_frames

\* the callbacks put on work_queue: do_update around an update_callback that
\* raises or not, and update_inputs of http_post_input
DoUpdate(update_raises) == [callback |-> "do_update", update_raises |-> update_raises]

UpdateInputs == [callback |-> "update_inputs", update_raises |-> FALSE]

\* update_callback refreshes the entry with what it reads, unless it raises
update_callback(cache, update_raises, read) ==
    IF update_raises THEN [cache |-> cache, how |-> "raised"]
    ELSE [cache |-> [value |-> read, age_in_frames |-> 0], how |-> "returned"]

\* do_update, lines 42-48: try: update_callback() except Exception: pass
do_update(cache, update_raises, read) ==
    [cache |-> update_callback(cache, update_raises, read).cache, how |-> "returned"]

\* update_inputs touches the emulator's buttons, not the cache
update_inputs(cache) == [cache |-> cache, how |-> "returned"]

run_callback(item, cache, read) ==
    IF item.callback = "do_update" THEN do_update(cache, item.update_raises, read)
    ELSE update_inputs(cache)

\* the server thread outside _update_via_work_queue; `own` is what became of
\* the callback of its last call, `served` the value the handler then read
IdleServer ==
    [pc |-> "idle", maximum_age_in_frames |-> 5, enqueued |-> 0, own |-> "none",
     how |-> "none", cached_at_call |-> 1, served |-> 1]

\* _update_via_work_queue when the entry is young enough: line 40
returned_at_once(cache, maximum_age_in_frames) ==
    [pc |-> "idle", maximum_age_in_frames |-> maximum_age_in_frames, enqueued |-> 0,
     own |-> "none", how |-> "returned", cached_at_call |-> cache.value,
     served |-> cache.value]

\* the server thread after put_nowait, inside work_queue.join(): lines 51-52
joining(cache, maximum_age_in_frames) ==
    [pc |-> "joining", maximum_age_in_frames |-> maximum_age_in_frames, enqueued |-> 1,
     own |-> "queued", how |-> "none", cached_at_call |-> cache.value,
     served |-> cache.value]

WebInit ==
    /\ work_queue = <<>>
    /\ unfinished_tasks = 0
    /\ server = IdleServer
    /\ state_cache = [value |-> 1, age_in_frames |-> 0]
    /\ main_loop = "draining"

--------------------------------------------------------------------------
(* stats.py: _update_encounter_rates with both of its windows *)

\* line 79: REALBOT_ENCOUNTER_BENCHMARK set or not
buffer_size_from_env(benchmark) ==
    IF benchmark THEN benchmark_encounter_buffer_size ELSE encounter_buffer_size

\* deque.append without the maxlen of lines 80-81
deque_append_unbounded(deque, maxlen, x) == Append(deque, x)

\* deque(maxlen = maxlen).append
deque_append(deque, maxlen, x) ==
    IF Len(deque) < maxlen THEN Append(deque, x) ELSE Append(Tail(deque), x)

\* lines 350-360, in tenths: round(3600 / (frame_diff / (n - 1) / 59.7275...), 1)
\* when the average is positive, else 0
RateAt1xOf(frames, old_rate) ==
    IF Len(frames) > 1
    THEN IF frames[Len(frames)] - frames[1] > 0
         THEN (2 * FramesPerHourTenths * (Len(frames) - 1) + (frames[Len(frames)] - frames[1]))
                 \div (2 * (frames[Len(frames)] - frames[1]))
         ELSE 0
    ELSE old_rate

\* __init__, lines 40-41 and 79-81
NewRates(benchmark, samples) ==
    [maxlen |-> buffer_size_from_env(benchmark),
     timestamps |-> <<>>, frames |-> <<>>,
     encounter_rate |-> 0, encounter_rate_at_1x |-> 0,
     samples |-> samples]

with_samples(r, time, frame_now) ==
    [r EXCEPT !.timestamps = deque_append(@, r.maxlen, time),
              !.frames = deque_append(@, r.maxlen, frame_now),
              !.samples = @ + 1]

\* _update_encounter_rates, lines 335-360
update_both_encounter_rates(r, time, frame_now) ==
    [with_samples(r, time, frame_now) EXCEPT
       !.encounter_rate = RateOf(with_samples(r, time, frame_now).timestamps, @),
       !.encounter_rate_at_1x = RateAt1xOf(with_samples(r, time, frame_now).frames, @)]

RatesInit ==
    /\ rates = NewRates(FALSE, 0)
    /\ frame = 0

--------------------------------------------------------------------------
(* Threads *)

Writers == {1, 2}

IdleWriter == [pc |-> "idle", encounter |-> None, insert |-> FALSE, done |-> 0]

IdleHttp == [pc |-> "idle", rows |-> {}, served |-> 0]

\* after construction on a new profile, nothing else going on
AuxInit ==
    /\ stats_db = open_schema(NoSchema).schema
    /\ base_data = <<>>
    /\ schema_log = <<>>
    /\ writers = [t \in Writers |-> IdleWriter]
    /\ unlocked = {}
    /\ http = IdleHttp
    /\ cursor_user = "main"
    /\ stats_dir = FALSE
    /\ write_log = <<>>
    /\ WebInit
    /\ RatesInit
    /\ global_stats = None
    /\ shiny_log = <<>>

--------------------------------------------------------------------------
(* The engine driven by its caller *)

Assign(s) ==
    /\ disk' = s.disk
    /\ db' = s.db
    /\ running' = s.running
    /\ last_encounter' = s.last_encounter
    /\ last_fishing_attempt' = s.last_fishing_attempt
    /\ last_shiny_species_phase_encounters' = s.last_shiny_species_phase_encounters
    /\ current_shiny_phase' = s.current_shiny_phase
    /\ shortest_shiny_phase' = s.shortest_shiny_phase
    /\ longest_shiny_phase' = s.longest_shiny_phase
    /\ next_encounter_id' = s.next_encounter_id
    /\ encounter_summaries' = s.encounter_summaries
    /\ encounter_timestamps' = s.encounter_timestamps
    /\ encounter_rate' = s.encounter_rate

StoredMaxId(store) ==
    IF store.encounters = {} THEN 0 ELSE MaxOf({ e.encounter_id : e \in store.encounters })

Starts(s) ==
    /\ disk = s.disk
    /\ db = s.db
    /\ running = s.running
    /\ last_encounter = s.last_encounter
    /\ last_fishing_attempt = s.last_fishing_attempt
    /\ last_shiny_species_phase_encounters = s.last_shiny_species_phase_encounters
    /\ current_shiny_phase = s.current_shiny_phase
    /\ shortest_shiny_phase = s.shortest_shiny_phase
    /\ longest_shiny_phase = s.longest_shiny_phase
    /\ next_encounter_id = s.next_encounter_id
    /\ encounter_summaries = s.encounter_summaries
    /\ encounter_timestamps = s.encounter_timestamps
    /\ encounter_rate = s.encounter_rate

\* the engine constructed on a fresh store
Init ==
    /\ Starts(construct(EmptyStore))
    /\ log_encounters \in BOOLEAN
    /\ now = 1
    /\ instance = 1
    /\ opened_max_id = 0
    /\ calls = <<>>
    /\ phase_log = <<>>
    /\ AuxInit


\* what one log_encounter call leaves: the state r.state and an entry of calls
LogEncounterDone(r, pokemon, inserted) ==
    /\ Assign(r.state)
    /\ calls' = Append(calls,
         [encounter_id |-> r.state.last_encounter.encounter_id,
          shiny_phase_id |-> r.state.last_encounter.shiny_phase_id,
          encounter_time |-> r.state.last_encounter.encounter_time,
          pokemon |-> pokemon,
          inserted |-> inserted,
          instance |-> instance,
          opened_max_id |-> opened_max_id,
          how |-> r.how])

LogEncounter ==
    \E pokemon \in EnginePokemons, is_of_interest \in BOOLEAN,
       battle_outcome \in {"None"} \cup BattleOutcomes :
      /\ running
      /\ Len(calls) < MaxCalls
      /\ LogEncounterDone(
            log_encounter(Engine,
                          [pokemon |-> pokemon, encounter_time |-> now,
                           is_of_interest |-> is_of_interest, battle_outcome |-> battle_outcome],
                          log_encounters),
            pokemon, log_encounters \/ is_of_interest)
      /\ now' = now + 1
      /\ UNCHANGED aux
      /\ UNCHANGED <<log_encounters, instance, opened_max_id, phase_log>>

LogEndOfBattleWith(battle_outcome, is_of_interest) ==
    /\ running
    /\ Assign(log_end_of_battle(Engine, battle_outcome, is_of_interest).state)
    /\ UNCHANGED aux
    /\ UNCHANGED <<now, log_encounters, instance, opened_max_id, calls, phase_log>>

LogEndOfBattle ==
    \E battle_outcome \in BattleOutcomes, is_of_interest \in BOOLEAN :
      LogEndOfBattleWith(battle_outcome, is_of_interest)

\* the caller hands reset_shiny_phase the encounter it has just logged
ResetShinyPhase ==
    /\ running
    /\ last_encounter # None
    /\ Assign(reset_shiny_phase(Engine, last_encounter).state)
    /\ UNCHANGED aux
    /\ UNCHANGED <<now, log_encounters, instance, opened_max_id, calls, phase_log>>

ClearCurrentShinyPhase ==
    /\ running
    /\ Assign(clear_current_shiny_phase(Engine, now).state)
    /\ UNCHANGED aux
    /\ UNCHANGED <<now, log_encounters, instance, opened_max_id, calls, phase_log>>

LogFishingAttempt ==
    \E result \in FishingResults :
      /\ running
      /\ current_shiny_phase # None => current_shiny_phase.fishing_attempts < MaxFishing
      /\ Assign(log_fishing_attempt(Engine, result).state)
      /\ UNCHANGED aux
      /\ UNCHANGED <<now, log_encounters, instance, opened_max_id, calls, phase_log>>

LogPokenavCall ==
    /\ running
    /\ current_shiny_phase # None => current_shiny_phase.pokenav_calls < MaxPokenav
    /\ Assign(log_pokenav_call(Engine).state)
    /\ UNCHANGED aux
    /\ UNCHANGED <<now, log_encounters, instance, opened_max_id, calls, phase_log>>

\* The process ends (by itself, by sys.exit or by an exception nobody caught) and
\* the engine is constructed again on the same store.
Restart ==
    /\ instance <= MaxRestarts
    /\ Assign(construct(disk))
    /\ instance' = instance + 1
    /\ opened_max_id' = StoredMaxId(disk)
    /\ UNCHANGED aux
    /\ UNCHANGED <<log_encounters, now, calls, phase_log>>

Next ==
    \/ LogEncounter
    \/ LogEndOfBattle
    \/ ResetShinyPhase
    \/ ClearCurrentShinyPhase
    \/ LogFishingAttempt
    \/ LogPokenavCall
    \/ Restart

Spec == Init /\ [][Next]_vars

--------------------------------------------------------------------------
(* The engine on a store that an earlier release filled *)

\* what the earlier release logged: phase 1, ended by a shiny Pikachu, and
\* phase 2, still open, with one Unown
PriorE1 == Encounter(1, 1, 1, Pokemon(25, "", 40, 100))
PriorE2 == Encounter(2, 1, 2, Pokemon(25, "", 50, 3))
PriorE3 == Encounter(3, 2, 3, Pokemon(UnownSpecies, "B", 50, 100))

PriorSummaryAtClose ==
    25 :> EncounterSummary_update(EncounterSummary_create(PriorE1), PriorE2)

PriorPhase1 ==
    ShinyPhase_update_snapshot(
       [ShinyPhase_update(ShinyPhase_update(ShinyPhase_create(1, 0), PriorE1), PriorE2)
          EXCEPT !.shiny_encounter = PriorE2, !.end_time = PriorE2.encounter_time],
       PriorSummaryAtClose)

PriorPhase2 == ShinyPhase_update(ShinyPhase_create(2, 2), PriorE3)

\* the row of shiny_phases that INSERT and the UPDATE of _update_shiny_phase left
\* for a phase before the column anti_shiny_encounters existed; ALTER TABLE has
\* given the column its default since
PriorPhaseRow(phase) ==
    CHOOSE r \in
       update_shiny_phase(
          [EmptyStore EXCEPT
             !.shiny_phases = {ShinyPhaseRow(phase.shiny_phase_id, phase.start_time)}],
          [k \in DOMAIN phase \cup {"anti_shiny_encounters"} |->
             IF k = "anti_shiny_encounters" THEN 0 ELSE phase[k]]).shiny_phases : TRUE

PriorClosedRow ==
    [PriorPhaseRow(PriorPhase1) EXCEPT !.end_time = PriorE2.encounter_time,
                                       !.shiny_encounter_id = PriorE2.encounter_id]

PriorEncounters == {EncounterRow(PriorE1), EncounterRow(PriorE2), EncounterRow(PriorE3)}

\* phase 2 open with its one encounter
UpgradedStore ==
    [encounters |-> PriorEncounters,
     shiny_phases |-> {PriorClosedRow, PriorPhaseRow(PriorPhase2)},
     encounter_summaries |->
        (25 :> ResetPhaseOfSummary(PriorSummaryAtClose[25]))
           @@ (SpeciesIndexOf(PriorE3.pokemon) :> EncounterSummary_create(PriorE3))]

\* the same after clear_current_shiny_phase of the earlier release, at time 3
UpgradedClearedStore ==
    [encounters |-> PriorEncounters,
     shiny_phases |-> {PriorClosedRow, PriorPhaseRow(ClearedPhase(PriorPhase2, 3))},
     encounter_summaries |->
        (25 :> ResetPhaseOfSummary(PriorSummaryAtClose[25]))
           @@ (SpeciesIndexOf(PriorE3.pokemon) :>
                 ResetPhaseOfSummary(EncounterSummary_create(PriorE3)))]

InitUpgraded ==
    /\ \E store \in {UpgradedStore, UpgradedClearedStore} :
         /\ Starts(construct(store))
         /\ opened_max_id = StoredMaxId(store)
    /\ log_encounters \in BOOLEAN
    /\ now = 4
    /\ instance = 1
    /\ calls = <<>>
    /\ phase_log = <<>>
    /\ AuxInit

\* the operations of Next, with fewer log_encounter calls: the store has
\* encounters already
UpgradedLogEncounter ==
    /\ Len(calls) < MaxUpgradedCalls
    /\ LogEncounter

\* catches of a stored summary grows with every log_end_of_battle that reports a
\* catch of interest
UpgradedLogEndOfBattle ==
    /\ \A k \in DOMAIN encounter_summaries : encounter_summaries[k].catches < MaxCatches
    /\ LogEndOfBattle

NextUpgraded ==
    \/ UpgradedLogEncounter
    \/ UpgradedLogEndOfBattle
    \/ ResetShinyPhase
    \/ ClearCurrentShinyPhase
    \/ LogFishingAttempt
    \/ LogPokenavCall
    \/ Restart

SpecUpgraded == InitUpgraded /\ [][NextUpgraded]_vars

--------------------------------------------------------------------------
(* ShinyPhase.update on its own: one phase, given any encounters in turn *)

InitPhaseUpdate ==
    /\ Starts([construct(EmptyStore) EXCEPT !.current_shiny_phase = ShinyPhase_create(1, 1)])
    /\ log_encounters = TRUE
    /\ now = 1
    /\ instance = 1
    /\ opened_max_id = 0
    /\ calls = <<>>
    /\ phase_log = <<>>
    /\ AuxInit

PhaseUpdate ==
    \E pokemon \in UpdatePokemons :
      /\ Len(phase_log) < MaxPhaseLog
      /\ current_shiny_phase' =
            ShinyPhase_update(current_shiny_phase, Encounter(now, 1, now, pokemon))
      /\ phase_log' = Append(phase_log, pokemon)
      /\ now' = now + 1
      /\ UNCHANGED aux
      /\ UNCHANGED <<disk, db, running, log_encounters, last_encounter, last_fishing_attempt,
                     last_shiny_species_phase_encounters, shortest_shiny_phase,
                     longest_shiny_phase, next_encounter_id, encounter_summaries,
                     encounter_timestamps, encounter_rate, instance, opened_max_id, calls>>

NextPhaseUpdate == PhaseUpdate

SpecPhaseUpdate == InitPhaseUpdate /\ [][NextPhaseUpdate]_vars

--------------------------------------------------------------------------
(* The summary map on its own: lines 120-131 of log_encounter, given any encounters *)

InitSummary ==
    /\ Starts(construct(EmptyStore))
    /\ log_encounters = TRUE
    /\ now = 1
    /\ instance = 1
    /\ opened_max_id = 0
    /\ calls = <<>>
    /\ phase_log = <<>>
    /\ AuxInit

SummaryUpdate ==
    \E pokemon \in UpdatePokemons :
      /\ Len(phase_log) < MaxSummaryLog
      /\ Assign(commit(update_summary(Engine, SpeciesIndexOf(pokemon),
                                      Encounter(now, 1, now, pokemon))))
      /\ phase_log' = Append(phase_log, pokemon)
      /\ now' = now + 1
      /\ UNCHANGED aux
      /\ UNCHANGED <<log_encounters, instance, opened_max_id, calls>>

\* the engine is constructed again on the store: the summaries are read back
SummaryRestart ==
    /\ instance <= MaxRestarts
    /\ Assign(construct(disk))
    /\ instance' = instance + 1
    /\ UNCHANGED aux
    /\ UNCHANGED <<log_encounters, now, opened_max_id, calls, phase_log>>

NextSummary ==
    \/ SummaryUpdate
    \/ SummaryRestart

SpecSummary == InitSummary /\ [][NextSummary]_vars



--------------------------------------------------------------------------
(* Two threads writing through the engine: log_encounter statement by statement *)

\* _execute_write runs its statement inside `with self._lock` (line 685);
\* _commit calls self._connection.commit() with no lock taken (lines 692-697)
execute_write_holds_lock == TRUE
commit_holds_lock == FALSE

Issued(set, statement, holds_lock) == IF holds_lock THEN set ELSE set \cup {statement}

engine_history == <<log_encounters, instance, opened_max_id, calls, phase_log>>

InitWriters ==
    /\ Starts(construct(EmptyStore))
    /\ log_encounters \in BOOLEAN
    /\ now = 1
    /\ instance = 1
    /\ opened_max_id = 0
    /\ calls = <<>>
    /\ phase_log = <<>>
    /\ AuxInit

\* lines 92-114 done on s: the Encounter is built from self._next_encounter_id
WriterBuilt(t, s, pokemon, insert) ==
    /\ Assign([s EXCEPT !.last_encounter =
                 Encounter(s.next_encounter_id, s.current_shiny_phase.shiny_phase_id,
                           now, pokemon)])
    /\ writers' = [writers EXCEPT ![t] =
                     [pc |-> "built",
                      encounter |-> Encounter(s.next_encounter_id,
                                              s.current_shiny_phase.shiny_phase_id, now, pokemon),
                      insert |-> insert, done |-> @.done]]
    /\ unlocked' = Issued(unlocked, "INSERT INTO shiny_phases", execute_write_holds_lock)

WriterBuild(t) ==
    \E pokemon \in EnginePokemons, is_of_interest \in BOOLEAN :
      /\ running
      /\ writers[t].pc = "idle"
      /\ writers[t].done < MaxWriterCalls
      /\ WriterBuilt(t, open_phase_if_none(update_encounter_rates(Engine, now), now),
                     pokemon, log_encounters \/ is_of_interest)
      /\ now' = now + 1
      /\ UNCHANGED <<engine_history, stats_db, base_data, schema_log, http, cursor_user, stats_dir, write_log, web, rate_vars, global_stats, shiny_log>>

\* lines 115-116: _insert_encounter when the policy says so
WriterInsert(t) ==
    /\ running
    /\ writers[t].pc = "built"
    /\ IF writers[t].insert
          /\ \E e \in db.encounters : e.encounter_id = writers[t].encounter.encounter_id
       THEN /\ Assign(Exited(Engine).state)
            /\ writers' = [writers EXCEPT ![t].pc = "idle", ![t].done = @ + 1]
       ELSE /\ Assign([Engine EXCEPT !.db.encounters =
                         IF writers[t].insert
                         THEN @ \cup {EncounterRow(writers[t].encounter)} ELSE @])
            /\ writers' = [writers EXCEPT ![t].pc = "inserted"]
    /\ unlocked' = Issued(unlocked, "INSERT INTO encounters", execute_write_holds_lock)
    /\ UNCHANGED <<now, engine_history, stats_db, base_data, schema_log, http, cursor_user, stats_dir, write_log, web, rate_vars, global_stats, shiny_log>>

\* what lines 117-137 leave, r being their result
WriterUpdated(t, r) ==
    /\ Assign(r.state)
    /\ writers' = [writers EXCEPT ![t].pc = "idle", ![t].done = @ + 1]
    /\ unlocked' = IF r.how = "returned"
                   THEN Issued(unlocked, "commit", commit_holds_lock) ELSE unlocked

\* lines 117-137: the phase is updated, then written; summary, commit, id counter
WriterUpdate(t) ==
    /\ running
    /\ writers[t].pc = "inserted"
    /\ WriterUpdated(t,
          log_encounter_write(
             [Engine EXCEPT !.current_shiny_phase = ShinyPhase_update(@, writers[t].encounter)],
             writers[t].encounter,
             [pokemon |-> writers[t].encounter.pokemon,
              encounter_time |-> writers[t].encounter.encounter_time,
              is_of_interest |-> writers[t].insert, battle_outcome |-> "None"]))
    /\ UNCHANGED <<now, engine_history, stats_db, base_data, schema_log, http, cursor_user, stats_dir, write_log, web, rate_vars, global_stats, shiny_log>>

\* log_end_of_battle by a thread: its UPDATE under the lock, then _commit
WriterEndOfBattle(t) ==
    \E battle_outcome \in BattleOutcomes :
      /\ running
      /\ writers[t].pc = "idle"
      /\ writers[t].done < MaxWriterCalls
      /\ Assign(log_end_of_battle(Engine, battle_outcome, TRUE).state)
      /\ writers' = [writers EXCEPT ![t].done = @ + 1]
      /\ unlocked' = IF last_encounter # None
                     THEN Issued(Issued(unlocked, "UPDATE encounters", execute_write_holds_lock),
                                 "commit", commit_holds_lock)
                     ELSE unlocked
      /\ UNCHANGED <<now, engine_history, stats_db, base_data, schema_log, http, cursor_user, stats_dir, write_log, web, rate_vars, global_stats, shiny_log>>

NextWriters ==
    \E t \in Writers :
      \/ WriterBuild(t)
      \/ WriterInsert(t)
      \/ WriterUpdate(t)
      \/ WriterEndOfBattle(t)

SpecWriters == InitWriters /\ [][NextWriters]_vars

--------------------------------------------------------------------------
(* The HTTP server thread reading the engine while the main thread writes *)

InitHttp ==
    /\ Starts(construct(EmptyStore))
    /\ log_encounters \in BOOLEAN
    /\ now = 1
    /\ instance = 1
    /\ opened_max_id = 0
    /\ calls = <<>>
    /\ phase_log = <<>>
    /\ AuxInit

\* one log_encounter call of the main thread; self._cursor has run its statements, if any
MainLogEncounterDone(r, pokemon, inserted) ==
    /\ LogEncounterDone(r, pokemon, inserted)
    /\ cursor_user' = IF r.state.db # db \/ r.how = "exit" THEN "main" ELSE cursor_user

MainLogEncounter ==
    \E pokemon \in EnginePokemons, is_of_interest \in BOOLEAN :
      /\ running
      /\ Len(calls) < MaxCalls
      /\ MainLogEncounterDone(
            log_encounter(Engine,
                          [pokemon |-> pokemon, encounter_time |-> now,
                           is_of_interest |-> is_of_interest, battle_outcome |-> "None"],
                          log_encounters),
            pokemon, log_encounters \/ is_of_interest)
      /\ now' = now + 1
      /\ UNCHANGED <<log_encounters, instance, opened_max_id, phase_log,
                     stats_db, base_data, schema_log, writers, unlocked, http, stats_dir, write_log, web, rate_vars, global_stats, shiny_log>>

MainLogEndOfBattle ==
    \E battle_outcome \in BattleOutcomes :
      /\ running
      /\ last_encounter # None
      /\ Assign(log_end_of_battle(Engine, battle_outcome, TRUE).state)
      /\ cursor_user' = "main"
      /\ UNCHANGED <<now, engine_history, stats_db, base_data, schema_log, writers, unlocked, http, stats_dir, write_log, web, rate_vars, global_stats, shiny_log>>

\* http_get_encounter_log -> get_encounter_log -> query_encounters, called in the
\* server thread itself: result = self._cursor.execute(SELECT ...)
HttpExecute ==
    /\ running
    /\ http.pc = "idle"
    /\ http.served < MaxHttpReads
    /\ http' = [http EXCEPT !.pc = "fetching", !.rows = {}]
    /\ cursor_user' = "http"
    /\ UNCHANGED <<disk, db, running, last_encounter, last_fishing_attempt,
                   last_shiny_species_phase_encounters, current_shiny_phase,
                   shortest_shiny_phase, longest_shiny_phase, next_encounter_id,
                   encounter_summaries, encounter_timestamps, encounter_rate,
                   now, engine_history, stats_db, base_data, schema_log, writers, unlocked,
                   stats_dir, write_log, web, rate_vars, global_stats, shiny_log>>

\* `for row in result`: the rows come from whatever self._cursor executed last
HttpFetch ==
    /\ http.pc = "fetching"
    /\ http' = [pc |-> "idle",
                rows |-> IF cursor_user = "http"
                         THEN { Encounter_from_row_data(row) : row \in db.encounters }
                         ELSE {},
                served |-> http.served + 1]
    /\ UNCHANGED <<disk, db, running, last_encounter, last_fishing_attempt,
                   last_shiny_species_phase_encounters, current_shiny_phase,
                   shortest_shiny_phase, longest_shiny_phase, next_encounter_id,
                   encounter_summaries, encounter_timestamps, encounter_rate,
                   now, engine_history, stats_db, base_data, schema_log, writers, unlocked,
                   cursor_user, stats_dir, write_log, web, rate_vars, global_stats, shiny_log>>

NextHttp ==
    \/ MainLogEncounter
    \/ MainLogEndOfBattle
    \/ HttpExecute
    \/ HttpFetch

SpecHttp == InitHttp /\ [][NextHttp]_vars

--------------------------------------------------------------------------
(* Construction of the engine on stores of every schema version; base data *)

DataKeys == {"k1", "k2"}
DataValues == {"a", "None"}
SchemaVersions == 0..4

\* the rows base_data may hold: none while the table does not exist
BaseDataRows(v) ==
    IF v = 0 THEN {<<>>}
    ELSE UNION { [K -> DataValues] : K \in SUBSET DataKeys }

\* a store an earlier run has left one encounter and its open phase in
OneEncounterStore ==
    [EmptyStore EXCEPT
       !.encounters = {EncounterRow(Encounter(1, 1, 0, Pokemon(25, "", 40, 100)))},
       !.shiny_phases = {ShinyPhaseRow(1, 0)}]

StoreContents(v) == IF v = 0 THEN {EmptyStore} ELSE {EmptyStore, OneEncounterStore}

InitSchema ==
    /\ \E v \in SchemaVersions :
         /\ \E rows \in BaseDataRows(v) :
              stats_db = [SchemaOfVersion(v) EXCEPT !.base_data_rows = rows]
         /\ \E store \in StoreContents(v) : Starts(NoEngine(store))
    /\ log_encounters = TRUE
    /\ now = 1
    /\ instance = 0
    /\ opened_max_id = 0
    /\ calls = <<>>
    /\ phase_log = <<>>
    /\ base_data = <<>>
    /\ schema_log = <<>>
    /\ writers = [t \in Writers |-> IdleWriter]
    /\ unlocked = {}
    /\ http = IdleHttp
    /\ cursor_user = "main"
    /\ stats_dir \in BOOLEAN
    /\ write_log = <<>>
    /\ WebInit
    /\ RatesInit
    /\ global_stats = None
    /\ shiny_log = <<>>

\* what __init__ leaves: r is the result of its lines 47-49 and 52-55, import
\* tells whether line 51 ran and m how the importer ended.  Lines 57-67 read
\* the caches from the store; they are reached only when nothing has raised.
SchemaConstructed(r, import, m) ==
    /\ stats_db' = r.schema
    /\ Assign(IF ~r.ok THEN NoEngine(disk)
              ELSE IF ~import THEN construct(disk)
              ELSE IF m.ok THEN construct(migrate_old_stats(disk, m.durable))
              ELSE NoEngine(migrate_old_stats(disk, m.durable)))
    /\ base_data' = IF r.ok /\ (import => m.ok) THEN r.schema.base_data_rows ELSE <<>>
    /\ schema_log' = Append(schema_log,
                        [from_version |-> get_schema_version(stats_db),
                         before |-> stats_db, after |-> r.schema,
                         ok |-> r.ok, version_writes |-> r.version_writes,
                         store_before |-> disk,
                         stats_is_dir |-> stats_dir,
                         import |-> r.ok /\ import,
                         import_ok |-> m.ok,
                         imported |-> IF r.ok /\ import THEN m.durable ELSE 0])

SchemaConstruct ==
    /\ ~running
    /\ Len(schema_log) <= MaxRestarts
    /\ \E m \in LegacyImportOutcomes :
         /\ ~runs_legacy_import(get_schema_version(stats_db), stats_dir) =>
               m = [durable |-> Len(LegacyShinyLog), ok |-> TRUE]
         /\ SchemaConstructed(open_schema(stats_db),
                              runs_legacy_import(get_schema_version(stats_db), stats_dir), m)
    /\ instance' = instance + 1
    /\ UNCHANGED <<now, log_encounters, opened_max_id, calls, phase_log,
                   writers, unlocked, http, cursor_user, stats_dir, write_log, web, rate_vars, global_stats, shiny_log>>

\* set_data: REPLACE INTO base_data, self._base_data[key] = value, commit
SetData ==
    \E key \in DataKeys, value \in DataValues :
      /\ running
      /\ stats_db' = [stats_db EXCEPT !.base_data_rows =
                        [k \in DOMAIN @ \cup {key} |-> IF k = key THEN value ELSE @[k]]]
      /\ base_data' = [k \in DOMAIN base_data \cup {key} |->
                         IF k = key THEN value ELSE base_data[k]]
      /\ UNCHANGED <<disk, db, running, last_encounter, last_fishing_attempt,
                     last_shiny_species_phase_encounters, current_shiny_phase,
                     shortest_shiny_phase, longest_shiny_phase, next_encounter_id,
                     encounter_summaries, encounter_timestamps, encounter_rate,
                     now, engine_history, schema_log, writers, unlocked, http, cursor_user, stats_dir, write_log, web, rate_vars, global_stats, shiny_log>>

\* the process ends
SchemaClose ==
    /\ running
    /\ Assign(NoEngine(disk))
    /\ base_data' = <<>>
    /\ UNCHANGED <<now, engine_history, stats_db, schema_log, writers, unlocked, http,
                   cursor_user, stats_dir, write_log, web, rate_vars, global_stats, shiny_log>>

NextSchema ==
    \/ SchemaConstruct
    \/ SetData
    \/ SchemaClose

SpecSchema == InitSchema /\ [][NextSchema]_vars

--------------------------------------------------------------------------
(* The write primitives under errors of sqlite *)

WriteIds == 1..MaxWriteId

\* a profile whose store was left by the release with schema version 2, or by
\* this one; no engine yet
InitWriteErrors ==
    /\ Starts(NoEngine(EmptyStore))
    /\ log_encounters = TRUE
    /\ now = 1
    /\ instance = 0
    /\ opened_max_id = 0
    /\ calls = <<>>
    /\ phase_log = <<>>
    /\ stats_db \in {SchemaOfVersion(2), SchemaOfVersion(current_schema_version)}
    /\ base_data = <<>>
    /\ schema_log = <<>>
    /\ writers = [t \in Writers |-> IdleWriter]
    /\ unlocked = {}
    /\ http = IdleHttp
    /\ cursor_user = "main"
    /\ stats_dir = FALSE
    /\ write_log = <<>>
    /\ WebInit
    /\ RatesInit
    /\ global_stats = None
    /\ shiny_log = <<>>

WriteLogged(op, exception, r) ==
    write_log' = Append(write_log,
         [op |-> op, exception |-> exception, how |-> r.how,
          db_before |-> db, db_after |-> r.state.db,
          disk_before |-> disk, disk_after |-> r.state.disk,
          running_after |-> r.state.running])

\* one call of a write primitive or of _commit: r is what it did
WriteDone(op, exception, r) ==
    /\ Assign(r.state)
    /\ WriteLogged(op, exception, r)
    /\ UNCHANGED <<now, engine_history, stats_db, base_data, schema_log, writers, unlocked,
                   http, cursor_user, stats_dir, web, rate_vars, global_stats, shiny_log>>

WriteInsertEncounter ==
    \E id \in WriteIds, injected \in {NoException} \cup EnvironmentExceptions :
      /\ running
      /\ Len(write_log) < MaxWrites
      /\ WriteDone("insert_encounter",
                   IF injected # NoException THEN injected
                   ELSE insert_encounter_exception(db, id),
                   insert_encounter(Engine, Encounter(id, 1, now, Pokemon(25, "", 40, 100)),
                                    injected))

WriteInsertShinyPhase ==
    \E id \in WriteIds, injected \in {NoException} \cup EnvironmentExceptions :
      /\ running
      /\ Len(write_log) < MaxWrites
      /\ WriteDone("insert_shiny_phase",
                   IF injected # NoException THEN injected
                   ELSE insert_shiny_phase_exception(db, id),
                   insert_shiny_phase_write(Engine, ShinyPhase_create(id, now), injected))

WriteCommit ==
    \E injected \in {NoException} \cup EnvironmentExceptions :
      /\ running
      /\ Len(write_log) < MaxWrites
      /\ WriteDone("commit", injected, commit_write(Engine, injected))

\* __init__ on a store of the current schema version: nothing is written
WriteConstruct ==
    /\ ~running
    /\ instance <= MaxRestarts
    /\ get_schema_version(stats_db) = current_schema_version
    /\ Assign(construct(disk))
    /\ instance' = instance + 1
    /\ UNCHANGED <<now, log_encounters, opened_max_id, calls, phase_log, stats_db, base_data,
                   schema_log, writers, unlocked, http, cursor_user, stats_dir, write_log, web, rate_vars, global_stats, shiny_log>>

\* __init__ on an older store: _update_schema.  Its ALTER TABLE statements take
\* effect as they run; DELETE and INSERT on schema_version wait for the commit
\* of line 927, which `injected` makes fail.
WriteUpdateSchema ==
    \E injected \in {NoException} \cup EnvironmentExceptions :
      /\ ~running
      /\ instance <= MaxRestarts
      /\ Len(write_log) < MaxWrites
      /\ get_schema_version(stats_db) < current_schema_version
      /\ IF ~open_schema(stats_db).ok
         THEN /\ injected = NoException
              /\ stats_db' = open_schema(stats_db).schema
              /\ Assign(NoEngine(disk))
              /\ WriteLogged("update_schema", SchemaStatementError, Raised(NoEngine(disk)))
         ELSE /\ stats_db' = IF injected = NoException THEN open_schema(stats_db).schema
                             ELSE [open_schema(stats_db).schema
                                     EXCEPT !.version_rows = stats_db.version_rows]
              /\ Assign(IF injected = NoException THEN construct(disk) ELSE NoEngine(disk))
              /\ WriteLogged("update_schema commit", injected,
                             commit_schema(NoEngine(disk), injected))
      /\ instance' = instance + 1
      /\ UNCHANGED <<now, log_encounters, opened_max_id, calls, phase_log, base_data,
                     schema_log, writers, unlocked, http, cursor_user, stats_dir, web, rate_vars, global_stats, shiny_log>>

NextWriteErrors ==
    \/ WriteInsertEncounter
    \/ WriteInsertShinyPhase
    \/ WriteCommit
    \/ WriteConstruct
    \/ WriteUpdateSchema

SpecWriteErrors == InitWriteErrors /\ [][NextWriteErrors]_vars

--------------------------------------------------------------------------
(* The HTTP server thread and the main loop at the work queue *)

\* the engine and the other threads, which the work queue does not touch
BesideWeb ==
    /\ Assign(Engine)
    /\ UNCHANGED <<now, engine_history, stats_db, base_data, schema_log, writers, unlocked,
                   http, cursor_user, stats_dir, write_log, rate_vars, global_stats, shiny_log>>

InitQueue ==
    /\ Starts(construct(EmptyStore))
    /\ log_encounters = TRUE
    /\ now = 1
    /\ instance = 1
    /\ opened_max_id = 0
    /\ calls = <<>>
    /\ phase_log = <<>>
    /\ AuxInit

\* a GET handler calls _update_via_work_queue(state_cache_entry, update_callback, maximum)
Request ==
    \E maximum_age_in_frames \in MaximumAges, update_raises \in BOOLEAN :
      /\ server.pc = "idle"
      /\ IF is_up_to_date(state_cache, maximum_age_in_frames)
         THEN /\ server' = returned_at_once(state_cache, maximum_age_in_frames)
              /\ UNCHANGED <<work_queue, unfinished_tasks>>
         ELSE /\ Len(work_queue) < MaxQueue
              /\ work_queue' = Append(work_queue, DoUpdate(update_raises))
              /\ unfinished_tasks' = unfinished_tasks + 1
              /\ server' = joining(state_cache, maximum_age_in_frames)
      /\ UNCHANGED <<state_cache, main_loop>>
      /\ BesideWeb

\* work_queue.join() returns: no put is left without its task_done
JoinReturn ==
    /\ server.pc = "joining"
    /\ unfinished_tasks = 0
    /\ server' = [server EXCEPT !.pc = "idle", !.how = "returned", !.served = state_cache.value]
    /\ UNCHANGED <<work_queue, unfinished_tasks, state_cache, main_loop>>
    /\ BesideWeb

\* http_post_input: put_nowait(update_inputs), and the handler returns
PostInput ==
    /\ server.pc = "idle"
    /\ Len(work_queue) < MaxQueue
    /\ work_queue' = Append(work_queue, UpdateInputs)
    /\ unfinished_tasks' = unfinished_tasks + 1
    /\ UNCHANGED <<server, state_cache, main_loop>>
    /\ BesideWeb

\* what a callback of _update_via_work_queue did, as the server's call sees it
OwnCallbackRun(item) ==
    IF item.callback = "do_update"
    THEN [server EXCEPT !.own = IF item.update_raises THEN "swallowed" ELSE "updated"]
    ELSE server

\* the main thread, after a frame, takes the first callback and runs it; a
\* callback that returns is followed by task_done, one that raises ends the loop
RunCallback ==
    \E read \in CacheValues :
      /\ main_loop = "draining"
      /\ work_queue # <<>>
      /\ work_queue' = Tail(work_queue)
      /\ state_cache' = run_callback(Head(work_queue), state_cache, read).cache
      /\ IF run_callback(Head(work_queue), state_cache, read).how = "returned"
         THEN /\ unfinished_tasks' = unfinished_tasks - 1
              /\ main_loop' = main_loop
         ELSE /\ unfinished_tasks' = unfinished_tasks
              /\ main_loop' = "stopped"
      /\ server' = OwnCallbackRun(Head(work_queue))
      /\ BesideWeb

\* the main thread emulates a frame: the cache entry is one frame older
RunFrame ==
    /\ main_loop = "draining"
    /\ state_cache.age_in_frames < MaxAge
    /\ state_cache' = [state_cache EXCEPT !.age_in_frames = @ + 1]
    /\ UNCHANGED <<work_queue, unfinished_tasks, server, main_loop>>
    /\ BesideWeb

\* the main thread no longer comes to the queue (it has ended, or it is held
\* up for good)
MainLoopStops ==
    /\ main_loop = "draining"
    /\ main_loop' = "stopped"
    /\ UNCHANGED <<work_queue, unfinished_tasks, server, state_cache>>
    /\ BesideWeb

NextQueue ==
    \/ Request
    \/ JoinReturn
    \/ PostInput
    \/ RunCallback
    \/ RunFrame
    \/ MainLoopStops

SpecQueue == InitQueue /\ [][NextQueue]_vars

\* the main thread, while it comes to the queue, does take the next callback,
\* and a join that may return does return
SpecQueueLive ==
    /\ InitQueue
    /\ [][NextQueue]_vars
    /\ WF_vars(RunCallback)
    /\ WF_vars(JoinReturn)

--------------------------------------------------------------------------
(* The encounter-rate estimators, sample after sample *)

\* what the clock and the frame counter can do between two samples: stand
\* still, advance, or go back (the clock is set, a saved state is loaded)
TimeSteps == {-1, 0, 2}
FrameSteps == {-60, 0, 120}

BesideRates ==
    /\ Assign(Engine)
    /\ UNCHANGED <<engine_history, stats_db, base_data, schema_log, writers, unlocked,
                   http, cursor_user, stats_dir, write_log, web, global_stats, shiny_log>>

InitRates ==
    /\ Starts(construct(EmptyStore))
    /\ log_encounters = TRUE
    /\ now = 1
    /\ instance = 1
    /\ opened_max_id = 0
    /\ calls = <<>>
    /\ phase_log = <<>>
    /\ stats_db = open_schema(NoSchema).schema
    /\ base_data = <<>>
    /\ schema_log = <<>>
    /\ writers = [t \in Writers |-> IdleWriter]
    /\ unlocked = {}
    /\ http = IdleHttp
    /\ cursor_user = "main"
    /\ stats_dir = FALSE
    /\ write_log = <<>>
    /\ WebInit
    /\ global_stats = None
    /\ shiny_log = <<>>
    /\ \E benchmark \in BOOLEAN : rates = NewRates(benchmark, 0)
    /\ frame = 0

\* log_encounter reaches line 94 at time now' and frame frame'
UpdateEncounterRates ==
    \E dt \in TimeSteps, df \in FrameSteps :
      /\ rates.samples < MaxSamples
      /\ rates.samples >= FreeSamples => (dt = 2 /\ df = 120)
      /\ now' = now + dt
      /\ frame' = frame + df
      /\ rates' = update_both_encounter_rates(rates, now + dt, frame + df)
      /\ BesideRates

\* the engine is constructed again in the same environment
RatesRestart ==
    /\ rates.samples <= FreeSamples
    /\ rates.timestamps # <<>>
    /\ rates' = NewRates(rates.maxlen = benchmark_encounter_buffer_size, rates.samples)
    /\ UNCHANGED <<now, frame>>
    /\ BesideRates

NextRates ==
    \/ UpdateEncounterRates
    \/ RatesRestart

SpecRates == InitRates /\ [][NextRates]_vars

--------------------------------------------------------------------------
(* stats.py: get_global_stats, and a consumer holding what it returned *)

\* EncounterTotals.from_summaries: the sums it adds up
EncounterTotals_from_summaries(summaries) ==
    [total_encounters |-> SumOver(summaries, DOMAIN summaries, "total_encounters"),
     shiny_encounters |-> SumOver(summaries, DOMAIN summaries, "shiny_encounters"),
     catches |-> SumOver(summaries, DOMAIN summaries, "catches"),
     phase_encounters |-> SumOver(summaries, DOMAIN summaries, "phase_encounters")]

\* get_global_stats, lines 268-275: the GlobalStats object refers to the dict
\* _encounter_summaries and to the phase object of the engine, it copies
\* neither; its totals are not computed yet (cached_property)
get_global_stats(phase, engine_instance) ==
    [phase_id |-> IF phase = None THEN NULL ELSE phase.shiny_phase_id,
     instance |-> engine_instance,
     totals |-> None]

\* GlobalStats.totals: computed from the dict at the first read, then kept
GlobalStats_totals(stats, summaries) ==
    IF stats.totals = None
    THEN [stats EXCEPT !.totals = EncounterTotals_from_summaries(summaries)]
    ELSE stats

\* the object is held in the process that made it
ViewHeld == global_stats # None /\ global_stats.instance = instance /\ running

\* global_stats.encounter_summaries: the dict of the engine as it is now
ViewSummaries == encounter_summaries

\* global_stats.current_shiny_phase while the engine still works on that object
ViewPhase ==
    IF /\ global_stats.phase_id # NULL
       /\ current_shiny_phase # None
       /\ current_shiny_phase.shiny_phase_id = global_stats.phase_id
    THEN current_shiny_phase
    ELSE None

BesideViews ==
    /\ Assign(Engine)
    /\ UNCHANGED <<now, engine_history, stats_db, base_data, schema_log, writers, unlocked,
                   http, cursor_user, stats_dir, write_log, web, rate_vars, shiny_log>>

InitViews ==
    /\ Starts(construct(UpgradedStore))
    /\ opened_max_id = StoredMaxId(UpgradedStore)
    /\ log_encounters = TRUE
    /\ now = 4
    /\ instance = 1
    /\ calls = <<>>
    /\ phase_log = <<>>
    /\ AuxInit

\* a consumer calls get_global_stats and keeps the result
GetGlobalStats ==
    /\ running
    /\ global_stats' = get_global_stats(current_shiny_phase, instance)
    /\ BesideViews

\* the consumer reads .totals of the object it holds
ReadTotals ==
    /\ ViewHeld
    /\ global_stats' = GlobalStats_totals(global_stats, ViewSummaries)
    /\ BesideViews

NextViews ==
    \/ NextUpgraded
    \/ GetGlobalStats
    \/ ReadTotals

SpecViews == InitViews /\ [][NextViews]_vars

--------------------------------------------------------------------------
(* stats.py: get_shiny_log over a store with many closed phases *)

\* WHERE end_time IS NOT NULL
ClosedRows(store) == { r \in store.shiny_phases : r.end_time # NULL }

\* _query_shiny_phases, line 384: limit: int | None = 10
default_limit == 10

RECURSIVE order_by_end_time_desc(_)
\* ORDER BY end_time DESC over rows whose end times differ
order_by_end_time_desc(rows) ==
    IF rows = {} THEN <<>>
    ELSE <<CHOOSE r \in rows : \A q \in rows : q.end_time <= r.end_time>>
           \o order_by_end_time_desc(
                rows \ {CHOOSE r \in rows : \A q \in rows : q.end_time <= r.end_time})

\* LIMIT limit OFFSET 0
limit_rows(ordered, limit) ==
    IF Len(ordered) <= limit THEN ordered ELSE SubSeq(ordered, 1, limit)

\* _query_shiny_phases("end_time IS NOT NULL ORDER BY end_time DESC"): limit is
\* not passed, the statement ends in LIMIT 10 OFFSET 0
get_shiny_log(store) ==
    [i \in DOMAIN limit_rows(order_by_end_time_desc(ClosedRows(store)), default_limit) |->
        query_shiny_phase(store,
           limit_rows(order_by_end_time_desc(ClosedRows(store)), default_limit)[i])]

\* the closing time of the k-th phase of a store: growing, falling or mixed
EndTimeOf(order, k) ==
    IF order = "growing" THEN k
    ELSE IF order = "falling" THEN EndTimeModulus - k
    ELSE IF k % 2 = 1 THEN k + 1 ELSE k - 1

LoggedShiny(k, order) == Encounter(k, k, EndTimeOf(order, k), Pokemon(25, "", 50, 3))

LoggedClosedRow(k, order) ==
    [ShinyPhaseRow(k, 0) EXCEPT !.end_time = EndTimeOf(order, k),
                                !.shiny_encounter_id = k,
                                !.encounters = 1]

\* a store with closed phases 1..closed_phases, and an open one after them or not
LoggedStore(closed_phases, order, with_open) ==
    [EmptyStore EXCEPT
       !.encounters = { EncounterRow(LoggedShiny(k, order)) : k \in 1..closed_phases },
       !.shiny_phases =
           { LoggedClosedRow(k, order) : k \in 1..closed_phases }
              \cup (IF with_open THEN {ShinyPhaseRow(closed_phases + 1, EndTimeModulus)} ELSE {})]

InitShinyLog ==
    /\ \E closed_phases \in 0..MaxClosedPhases, order \in {"growing", "falling", "mixed"},
          with_open \in BOOLEAN :
         /\ Starts(construct(LoggedStore(closed_phases, order, with_open)))
         /\ opened_max_id = closed_phases
    /\ log_encounters = TRUE
    /\ now = EndTimeModulus + 1
    /\ instance = 1
    /\ calls = <<>>
    /\ phase_log = <<>>
    /\ AuxInit

\* GET /shiny_log
GetShinyLog ==
    /\ running
    /\ shiny_log' = [i \in DOMAIN get_shiny_log(db) |->
                       [shiny_phase_id |-> get_shiny_log(db)[i].shiny_phase_id,
                        end_time |-> get_shiny_log(db)[i].end_time]]
    /\ Assign(Engine)
    /\ UNCHANGED <<now, engine_history, stats_db, base_data, schema_log, writers, unlocked,
                   http, cursor_user, stats_dir, write_log, web, rate_vars, global_stats>>

NextShinyLog ==
    \/ GetShinyLog
    \/ LogPokenavCall
    \/ LogFishingAttempt

SpecShinyLog == InitShinyLog /\ [][NextShinyLog]_vars

--------------------------------------------------------------------------
(* Properties *)

Last(seq) == seq[Len(seq)]

MinOf(set) == CHOOSE x \in set : \A y \in set : x <= y

OpenRows(store) == { r \in store.shiny_phases : r.end_time = NULL }


\* the species-form of a Pokemon, and a record holding a value for it
FormOf(pokemon) == <<pokemon.species, pokemon.unown_letter>>

FormRecord(value, pokemon) ==
    [value |-> value, species |-> pokemon.species,
     species_form |-> IF pokemon.unown_letter = "" THEN "None" ELSE pokemon.unown_letter]

\* a step that is a call of log_encounter
IsLogEncounterStep == Len(calls') = Len(calls) + 1

\* C1: within one engine instance every log_encounter call builds the encounter
\* with the id of the previous call plus 1; the first call of an instance gets
\* 1 + the greatest stored id (1 on an empty store).
C1_MonotonicIds ==
    \A i \in 1..Len(calls) :
       calls[i].encounter_id =
          IF i > 1 /\ calls[i - 1].instance = calls[i].instance
          THEN calls[i - 1].encounter_id + 1
          ELSE calls[i].opened_max_id + 1

\* C2: no two log_encounter calls, in the same or in different engine
\* instances, persisted or not, are given the same encounter_id.
C2_NoIdReuse ==
    \A i, j \in 1..Len(calls) : i # j => calls[i].encounter_id # calls[j].encounter_id

\* C3: at most one stored phase is open, and the in-memory current phase is
\* that phase and open (or there is none when no stored phase is open).
C3_OneOpenPhase ==
    LET open == OpenRows(db) IN
    /\ Cardinality(open) <= 1
    /\ IF open = {}
       THEN current_shiny_phase = None
       ELSE /\ current_shiny_phase # None
            /\ current_shiny_phase.end_time = NULL
            /\ \A r \in open : r.shiny_phase_id = current_shiny_phase.shiny_phase_id

\* C4: for every species-form key, the summary under that key counts the
\* log_encounter calls made for it and holds the greatest and the least of
\* their IV sums.
C4_SummaryConsistency ==
    \A i \in 1..Len(calls) :
       LET key == SpeciesIndexOf(calls[i].pokemon)
           mine == { j \in 1..Len(calls) : SpeciesIndexOf(calls[j].pokemon) = key }
           ivs == { calls[j].pokemon.iv_sum : j \in mine }
       IN /\ key \in DOMAIN encounter_summaries
          /\ encounter_summaries[key].total_encounters = Cardinality(mine)
          /\ encounter_summaries[key].total_highest_iv_sum = MaxOf(ivs)
          /\ encounter_summaries[key].total_lowest_iv_sum = MinOf(ivs)

\* C5: a log_encounter call for a shiny Pokemon moves exactly one stored phase
\* from open to closed, and the log_encounter call after it adds exactly one
\* phase, which is open.
C5_ShinyClosesOnePhase ==
    [][IsLogEncounterStep =>
         /\ is_shiny(Last(calls').pokemon) =>
              /\ Cardinality(ClosedRows(db')) = Cardinality(ClosedRows(db)) + 1
              /\ Cardinality(OpenRows(db')) = Cardinality(OpenRows(db)) - 1
         /\ (calls # <<>> /\ is_shiny(Last(calls).pokemon)) =>
              /\ Cardinality(db'.shiny_phases) = Cardinality(db.shiny_phases) + 1
              /\ Cardinality(OpenRows(db')) = 1]_vars

\* C6: once a shiny encounter has been logged, the phase it was logged in is
\* stored closed, with encounters = the number of log_encounter calls made in
\* that phase (the shiny one included), end_time = the time of the shiny
\* encounter and shiny_encounter = that encounter.
C6_ClosedPhaseCounts ==
    \A i \in 1..Len(calls) :
       is_shiny(calls[i].pokemon) =>
          \E r \in db.shiny_phases :
             /\ r.shiny_phase_id = calls[i].shiny_phase_id
             /\ r.end_time = calls[i].encounter_time
             /\ r.shiny_encounter_id = calls[i].encounter_id
             /\ r.encounters =
                  Cardinality({ j \in 1..i : calls[j].shiny_phase_id = r.shiny_phase_id })

\* C7: when reset_shiny_phase has been called with the shiny encounter that
\* ends the open phase, a fresh open phase with encounters = 0 is current.
C7_FreshPhaseAfterClose ==
    [][(ResetShinyPhase /\ current_shiny_phase # None /\ is_shiny(last_encounter.pokemon)) =>
         /\ current_shiny_phase' # None
         /\ current_shiny_phase'.end_time = NULL
         /\ current_shiny_phase'.encounters = 0]_vars

\* C8: reset_shiny_phase, called with a phase open, returns and leaves no open
\* phase in memory or in the store; the log_encounter call after it creates
\* exactly one phase, with 1 + the greatest stored phase id.
C8_ResetOpensNoPhase ==
    [][/\ (ResetShinyPhase /\ current_shiny_phase # None) =>
            /\ reset_shiny_phase(Engine, last_encounter).how = "returned"
            /\ current_shiny_phase' = None
            /\ OpenRows(db') = {}
       /\ (IsLogEncounterStep /\ current_shiny_phase = None /\ db.shiny_phases # {}) =>
            /\ Cardinality(db'.shiny_phases) = Cardinality(db.shiny_phases) + 1
            /\ \A r \in db'.shiny_phases \ db.shiny_phases :
                  /\ r.shiny_phase_id = 1 + MaxOf({ q.shiny_phase_id : q \in db.shiny_phases })
                  /\ current_shiny_phase'.shiny_phase_id = r.shiny_phase_id]_vars

\* the length of the run of one species-form that ends at position n of log
RunEndingAt(log, n) ==
    MaxOf({ k \in 1..n : \A i \in (n - k + 1)..n : FormOf(log[i]) = FormOf(log[n]) })

\* the species-forms of log are A, A, B, A, A, A for two different forms A and B
IsAABAAA(log) ==
    /\ Len(log) = 6
    /\ \A i \in {1, 2, 4, 5} : FormOf(log[i]) = FormOf(log[6])
    /\ FormOf(log[3]) # FormOf(log[6])

\* C9: after any encounters in one phase, current_streak is the species-form of
\* the last encounter with the length of the run of that species-form ending
\* there, longest_streak.value is the greatest value current_streak has had
\* (so it is >= current_streak.value), and after A, A, B, A, A, A both are (A, 3).
C9_Streaks ==
    LET n == Len(phase_log) IN
    n > 0 =>
      /\ current_shiny_phase.current_streak = FormRecord(RunEndingAt(phase_log, n), phase_log[n])
      /\ current_shiny_phase.longest_streak.value =
            MaxOf({ RunEndingAt(phase_log, m) : m \in 1..n })
      /\ current_shiny_phase.longest_streak.value >= current_shiny_phase.current_streak.value
      /\ IsAABAAA(phase_log) =>
            /\ current_shiny_phase.current_streak = FormRecord(3, phase_log[6])
            /\ current_shiny_phase.longest_streak = FormRecord(3, phase_log[6])

C9_Witness ==
    /\ IsAABAAA(phase_log)
    /\ current_shiny_phase.encounters = 6
    /\ current_shiny_phase.current_streak.value = 3

\* the record for the greatest (least) value of field over the positions idxs
\* of log: that value with the species-form of the first position attaining it
HighestRecord(log, idxs, field) ==
    IF idxs = {} THEN None
    ELSE LET best == MaxOf({ log[i][field] : i \in idxs })
         IN FormRecord(best, log[MinOf({ i \in idxs : log[i][field] = best })])

LowestRecord(log, idxs, field) ==
    IF idxs = {} THEN None
    ELSE LET best == MinOf({ log[i][field] : i \in idxs })
         IN FormRecord(best, log[MinOf({ i \in idxs : log[i][field] = best })])

\* C10: after any encounters in one phase, highest_iv_sum and lowest_iv_sum
\* hold the greatest and least iv_sum with the species-form of the first
\* encounter that attained it (a record is replaced only by a strictly greater,
\* resp. strictly smaller, value); highest_sv and lowest_sv are the same over
\* the non-shiny encounters only.
C10_PhaseRecords ==
    LET all == 1..Len(phase_log)
        plain == { i \in all : ~is_shiny(phase_log[i]) }
    IN /\ current_shiny_phase.highest_iv_sum = HighestRecord(phase_log, all, "iv_sum")
       /\ current_shiny_phase.lowest_iv_sum = LowestRecord(phase_log, all, "iv_sum")
       /\ current_shiny_phase.highest_sv = HighestRecord(phase_log, plain, "shiny_value")
       /\ current_shiny_phase.lowest_sv = LowestRecord(phase_log, plain, "shiny_value")

\* a tie between two species-forms on the greatest shiny value, after a shiny encounter
C10_Witness ==
    /\ Len(phase_log) >= 3
    /\ is_shiny(phase_log[1])
    /\ \E i, j \in 2..Len(phase_log) :
          /\ i < j
          /\ FormOf(phase_log[i]) # FormOf(phase_log[j])
          /\ phase_log[i].shiny_value = phase_log[j].shiny_value
          /\ current_shiny_phase.highest_sv = FormRecord(phase_log[i].shiny_value, phase_log[i])
          /\ current_shiny_phase.lowest_sv # None
          /\ current_shiny_phase.lowest_sv.value > phase_log[1].shiny_value

--------------------------------------------------------------------------
(* EncounterSummary: phase-scoped values *)

PhaseHighLow(summary) ==
    <<summary.phase_highest_iv_sum, summary.phase_lowest_iv_sum,
      summary.phase_highest_sv, summary.phase_lowest_sv>>

\* the four phase-scoped values under key k before a step: those of the summary,
\* or all None when the step is the one that creates it
PhaseHighLowBefore(k) ==
    IF k \in DOMAIN encounter_summaries
    THEN PhaseHighLow(encounter_summaries[k])
    ELSE <<NULL, NULL, NULL, NULL>>

IsShinySummaryStep ==
    /\ Len(phase_log') = Len(phase_log) + 1
    /\ is_shiny(Last(phase_log'))

\* C11: creating or updating a summary with a shiny encounter leaves its four
\* phase-scoped values (phase_highest_iv_sum, phase_lowest_iv_sum,
\* phase_highest_sv, phase_lowest_sv) as they were.
C11_ShinyLeavesPhaseHighLow ==
    [][IsShinySummaryStep =>
         PhaseHighLow(encounter_summaries'[SpeciesIndexOf(Last(phase_log'))])
           = PhaseHighLowBefore(SpeciesIndexOf(Last(phase_log')))]_vars

--------------------------------------------------------------------------
(* log_end_of_battle: the catches counters *)

CatchesOf(summaries, k) == IF k \in DOMAIN summaries THEN summaries[k].catches ELSE 0

\* every key but k keeps its catches counter
CatchesKeptBut(k) ==
    \A j \in (DOMAIN encounter_summaries \cup DOMAIN encounter_summaries') \ {k} :
       CatchesOf(encounter_summaries', j) = CatchesOf(encounter_summaries, j)

\* C12: log_end_of_battle(Caught, of interest) adds exactly 1 to the catches of
\* the summary under the species-form key of the most recent encounter (for
\* Unown 20100 + letter index) and to no other; any other outcome, or a call
\* that is not of interest, changes no summary's catches.
C12_CatchesCounted ==
    [][\A battle_outcome \in BattleOutcomes, is_of_interest \in BOOLEAN :
         (last_encounter # None /\ LogEndOfBattleWith(battle_outcome, is_of_interest)) =>
            IF battle_outcome = "Caught" /\ is_of_interest
            THEN /\ SpeciesIndexOf(last_encounter.pokemon) \in DOMAIN encounter_summaries'
                 /\ CatchesOf(encounter_summaries', SpeciesIndexOf(last_encounter.pokemon))
                      = CatchesOf(encounter_summaries, SpeciesIndexOf(last_encounter.pokemon)) + 1
                 /\ CatchesKeptBut(SpeciesIndexOf(last_encounter.pokemon))
            ELSE CatchesKeptBut(0)]_vars

--------------------------------------------------------------------------
(* The keys of the summary map *)

\* the species-form key of a Pokemon: 20100 + letter index for Unown, else the species index
FormKey(pokemon) ==
    IF pokemon.species = 201
    THEN 20100 + get_unown_index_by_letter(pokemon.unown_letter)
    ELSE pokemon.species

CountWithKey(log, k) == Cardinality({ i \in 1..Len(log) : FormKey(log[i]) = k })

\* the Pokemon given to the log_encounter calls so far
LoggedPokemon == [i \in 1..Len(calls) |-> calls[i].pokemon]

\* C13: every summary lies under its own species-form key, and each encounter
\* logged so far, restarts or not, is counted by the summary of its own key
\* alone: Unown of letter L under 20100 + index(L), any other species under
\* its index.
C13_OneKeyPerForm ==
    /\ DOMAIN encounter_summaries = { FormKey(calls[i].pokemon) : i \in 1..Len(calls) }
    /\ \A k \in DOMAIN encounter_summaries :
         /\ EncounterSummary_species_id_for_database(encounter_summaries[k]) = k
         /\ encounter_summaries[k].total_encounters = CountWithKey(LoggedPokemon, k)

--------------------------------------------------------------------------
(* The encounters log *)

\* row f is row e with at most its outcome set, and set only if e had none
SameButFirstOutcome(e, f) ==
    /\ [f EXCEPT !.outcome = e.outcome] = e
    /\ e.outcome # "None" => f.outcome = e.outcome

\* C14: a stored encounter is never deleted, none of its fields but outcome ever
\* changes, and its outcome changes only once, from null to the outcome given
\* to log_end_of_battle.
C14_OutcomeSetOnce ==
    [][\A e \in disk.encounters :
         \E f \in disk'.encounters :
            /\ f.encounter_id = e.encounter_id
            /\ SameButFirstOutcome(e, f)]_vars

--------------------------------------------------------------------------
(* log_encounter: what is written whatever the logging policy *)

TotalOf(summaries, k) == IF k \in DOMAIN summaries THEN summaries[k].total_encounters ELSE 0

EncountersOf(phase) == IF phase = None THEN 0 ELSE phase.encounters

\* C15: a log_encounter call puts its encounter into the encounters log exactly
\* when all encounters are logged or the encounter is of interest; either way
\* it counts the encounter in the summary of its species-form and in the
\* current phase, and advances the id counter by 1.
C15_LoggingPolicy ==
    [][IsLogEncounterStep =>
         /\ (\E e \in db'.encounters : e.encounter_id = Last(calls').encounter_id
                                       /\ e.encounter_time = Last(calls').encounter_time)
              <=> Last(calls').inserted
         /\ TotalOf(encounter_summaries', FormKey(Last(calls').pokemon))
              = TotalOf(encounter_summaries, FormKey(Last(calls').pokemon)) + 1
         /\ current_shiny_phase' # None
         /\ current_shiny_phase'.encounters = EncountersOf(current_shiny_phase) + 1
         /\ next_encounter_id' = next_encounter_id + 1]_vars

--------------------------------------------------------------------------
(* log_encounter: one transaction *)

\* C16: the writes of one log_encounter call are durable together or not at
\* all: a durable encounter row is never without the durable phase row it was
\* logged in and the durable summary that counts it.
C16_AllOrNothing ==
    \A e \in disk.encounters :
       /\ \E r \in disk.shiny_phases : r.shiny_phase_id = e.shiny_phase_id
       /\ FormKey(e.data) \in DOMAIN disk.encounter_summaries
       /\ disk.encounter_summaries[FormKey(e.data)].total_encounters >= 1

--------------------------------------------------------------------------
(* The write lock *)

InLogEncounter(t) == writers[t].pc \in {"built", "inserted"}

\* C17: no statement and no commit is issued without the write lock, and two
\* threads that are inside log_encounter at the same time never hold
\* Encounters with the same encounter_id.
C17_LockedWrites ==
    /\ unlocked = {}
    /\ \A t1, t2 \in Writers :
         (t1 # t2 /\ InLogEncounter(t1) /\ InLogEncounter(t2)) =>
            writers[t1].encounter.encounter_id # writers[t2].encounter.encounter_id

--------------------------------------------------------------------------
(* Reads of the HTTP layer *)

\* C18: a read made for the HTTP layer never overlaps a write of the engine:
\* while the read is between its SELECT and its last row, the shared cursor has
\* run no statement of another thread.
C18_ReadsSerialized ==
    http.pc = "fetching" => cursor_user = "http"

--------------------------------------------------------------------------
(* Schema migration *)

HasColumn(tables, name, column) ==
    /\ name \in DOMAIN tables
    /\ \E i \in 1..Len(tables[name]) : tables[name][i] = column

\* C19: a construction that finds schema version 0, 1 or 2 succeeds and leaves
\* the tables and columns a construction on no store at all leaves, with
\* shiny_phases.pokenav_calls, shiny_phases.anti_shiny_encounters and a
\* text-keyed base_data, and schema_version holding the one row 3.
C19_MigrationConverges ==
    \A i \in 1..Len(schema_log) :
       schema_log[i].from_version \in {0, 1, 2} =>
          /\ schema_log[i].ok
          /\ schema_log[i].after.tables = open_schema(NoSchema).schema.tables
          /\ HasColumn(schema_log[i].after.tables, "shiny_phases", "pokenav_calls")
          /\ HasColumn(schema_log[i].after.tables, "shiny_phases", "anti_shiny_encounters")
          /\ schema_log[i].after.tables["base_data"] = <<"data_key TEXT", "value">>
          /\ schema_log[i].after.version_rows = <<3>>

\* a store of version 1 has been opened
C19_Witness ==
    /\ Len(schema_log) >= 1
    /\ schema_log[1].from_version = 1
    /\ schema_log[1].before.tables["base_data"] = <<"data_key INT", "value">>

\* C20: a construction that finds the current schema version changes nothing
\* of the schema and writes nothing to schema_version; so a second
\* construction on a store that started at version 0 leaves the schema the
\* first one made.
C20_CurrentIsNoOp ==
    /\ \A i \in 1..Len(schema_log) :
          schema_log[i].from_version = 3 =>
             /\ schema_log[i].ok
             /\ schema_log[i].after.tables = schema_log[i].before.tables
             /\ schema_log[i].after.version_rows = schema_log[i].before.version_rows
             /\ schema_log[i].version_writes = 0
    /\ (Len(schema_log) >= 2 /\ schema_log[1].from_version = 0) =>
          /\ schema_log[2].after.tables = schema_log[1].after.tables
          /\ schema_log[2].after.version_rows = schema_log[1].after.version_rows

\* the engine has been constructed twice on a store that did not exist at first
C20_Witness ==
    /\ Len(schema_log) >= 2
    /\ schema_log[1].from_version = 0
    /\ schema_log[2].from_version = 3

--------------------------------------------------------------------------
(* Construction: a store that is too new, the legacy importer *)

IsConstructionStep == Len(schema_log') = Len(schema_log) + 1

\* C21: a construction on a store whose schema version is greater than the
\* current one raises before anything is done: no table, no schema_version row
\* and no row of the store is changed, the legacy importer is not run, no cache
\* is read from the store and the engine is not running afterwards; an engine
\* that is running works on a store that is not newer than the code.
C21_SchemaTooNew ==
    /\ [](running => get_schema_version(stats_db) <= current_schema_version)
    /\ [][(IsConstructionStep /\ get_schema_version(stats_db) > current_schema_version) =>
            /\ stats_db' = stats_db
            /\ disk' = disk
            /\ db' = db
            /\ ~ Last(schema_log').ok
            /\ ~ Last(schema_log').import
            /\ Last(schema_log').version_writes = 0
            /\ ~ running'
            /\ last_encounter' = None
            /\ current_shiny_phase' = None
            /\ next_encounter_id' = 1
            /\ base_data' = <<>>]_vars

\* a store of version 4 that holds an encounter, an open phase and base data,
\* in a profile with a legacy stats directory, has been opened
C21_Witness ==
    /\ schema_log # <<>>
    /\ Last(schema_log).from_version = 4
    /\ Last(schema_log).store_before.encounters # {}
    /\ Last(schema_log).before.base_data_rows # <<>>
    /\ Last(schema_log).stats_is_dir

\* C22: over all constructions on one store the legacy importer runs at most
\* once, and a construction in which it runs found schema version 0 and a
\* legacy stats directory.
C22_LegacyImportOnce ==
    /\ Cardinality({ i \in 1..Len(schema_log) : schema_log[i].import }) <= 1
    /\ \A i \in 1..Len(schema_log) :
          schema_log[i].import =>
             /\ schema_log[i].from_version = 0
             /\ schema_log[i].stats_is_dir

\* the importer ran in the first construction and, the directory still being
\* there, not in the second
C22_Witness ==
    /\ Len(schema_log) >= 2
    /\ schema_log[1].import
    /\ schema_log[2].stats_is_dir
    /\ ~ schema_log[2].import

\* C23: when the legacy importer has failed with only part (or none) of the
\* legacy entries durable, the store is not marked with the current schema
\* version, or the next construction runs the importer again.
C23_FailedImportNotCurrent ==
    \A i \in 1..Len(schema_log) :
       (/\ schema_log[i].import
        /\ ~ schema_log[i].import_ok
        /\ schema_log[i].imported < Len(LegacyShinyLog)) =>
          \/ get_schema_version(schema_log[i].after) # current_schema_version
          \/ i = Len(schema_log)
          \/ schema_log[i + 1].import

--------------------------------------------------------------------------
(* Errors of sqlite in a write or a commit *)

\* the store is locked by another process, or the inserted encounter_id exists
IsFatal(exception) == exception = Busy \/ exception = DuplicateEncounterId

\* C24: a write or commit that fails with SQLITE_BUSY, or an INSERT of an
\* encounter whose encounter_id exists, ends the process (sys.exit) with the
\* store, as the connection sees it and as committed, left as it was; a write
\* or commit that fails in any other way raises to the caller with the store
\* left as it was; no call returns normally after an error.
C24_WriteErrors ==
    \A i \in 1..Len(write_log) :
       /\ IsFatal(write_log[i].exception) =>
             /\ write_log[i].how = "exit"
             /\ ~ write_log[i].running_after
       /\ (write_log[i].exception # NoException /\ ~ IsFatal(write_log[i].exception)) =>
             write_log[i].how = "raised"
       /\ write_log[i].exception # NoException =>
             /\ write_log[i].how # "returned"
             /\ write_log[i].db_after = write_log[i].db_before
             /\ write_log[i].disk_after = write_log[i].disk_before

--------------------------------------------------------------------------
(* Closing and clearing a phase *)

\* reset_shiny_phase is called while a phase is open
IsPhaseClose == current_shiny_phase # None /\ ResetShinyPhase

\* clear_current_shiny_phase is called while a phase is open
IsPhaseClear == current_shiny_phase # None /\ ClearCurrentShinyPhase

PhaseRow(store, shiny_phase_id) ==
    CHOOSE r \in store.shiny_phases : r.shiny_phase_id = shiny_phase_id

ClosedCounts(store) == { r.encounters : r \in ClosedRows(store) }

PointerCounts(pointer) == IF pointer = None THEN {} ELSE {pointer.encounters}

\* the pointers hold the least and the greatest count of the closed phases
PointersAreExtremes ==
    IF ClosedCounts(db) = {}
    THEN shortest_shiny_phase = None /\ longest_shiny_phase = None
    ELSE /\ shortest_shiny_phase # None
         /\ longest_shiny_phase # None
         /\ shortest_shiny_phase.encounters = MinOf(ClosedCounts(db))
         /\ longest_shiny_phase.encounters = MaxOf(ClosedCounts(db))

\* C25: while the engine runs, the shortest and the longest pointer hold the
\* least and the greatest encounters count of the closed phases of the store;
\* closing a phase makes it a closed phase of the store, and it replaces the
\* shortest (longest) pointer exactly when its count is strictly smaller
\* (greater) than the pointer's, or there was no pointer.
C25_PhasePointers ==
    /\ [](running => PointersAreExtremes)
    /\ [][IsPhaseClose =>
            /\ current_shiny_phase.shiny_phase_id \in
                  { r.shiny_phase_id : r \in ClosedRows(db') }
            /\ shortest_shiny_phase' # None
            /\ longest_shiny_phase' # None
            /\ shortest_shiny_phase'.encounters =
                  MinOf({current_shiny_phase.encounters} \cup PointerCounts(shortest_shiny_phase))
            /\ longest_shiny_phase'.encounters =
                  MaxOf({current_shiny_phase.encounters} \cup PointerCounts(longest_shiny_phase))
            /\ (shortest_shiny_phase # None
                  /\ current_shiny_phase.encounters >= shortest_shiny_phase.encounters)
                  => shortest_shiny_phase' = shortest_shiny_phase
            /\ (longest_shiny_phase # None
                  /\ current_shiny_phase.encounters <= longest_shiny_phase.encounters)
                  => longest_shiny_phase' = longest_shiny_phase
       ]_vars

RowSnapshot(r) ==
    <<r.snapshot_total_encounters, r.snapshot_total_shiny_encounters,
      r.snapshot_species_encounters, r.snapshot_species_shiny_encounters>>

\* the summary of the species-form of a Pokemon that update_snapshot reads
SpeciesSummary(summaries, pokemon) ==
    summaries[MaxOf(SameSpeciesKeys(summaries, pokemon))]

\* what update_snapshot is to freeze when `encounter` ends a phase
SnapshotAt(summaries, encounter) ==
    <<SumOver(summaries, DOMAIN summaries, "total_encounters"),
      SumOver(summaries, DOMAIN summaries, "shiny_encounters"),
      IF SameSpeciesKeys(summaries, encounter.pokemon) = {} THEN NULL
      ELSE SpeciesSummary(summaries, encounter.pokemon).total_encounters,
      IF SameSpeciesKeys(summaries, encounter.pokemon) = {} THEN NULL
      ELSE SpeciesSummary(summaries, encounter.pokemon).shiny_encounters>>

\* C26: the stored snapshot of an open phase is null; closing a phase stores
\* it closed with a snapshot of the sums of total_encounters and
\* shiny_encounters over all summaries and of the totals of the species-form of
\* the terminating encounter, as they are at that moment; the stored snapshot
\* of a closed phase never changes afterwards.
C26_Snapshot ==
    /\ [](\A r \in OpenRows(db) : RowSnapshot(r) = <<NULL, NULL, NULL, NULL>>)
    /\ [][IsPhaseClose =>
            /\ PhaseRow(db', current_shiny_phase.shiny_phase_id).end_time # NULL
            /\ RowSnapshot(PhaseRow(db', current_shiny_phase.shiny_phase_id)) =
                  SnapshotAt(encounter_summaries, last_encounter)
       ]_vars
    /\ [][\A r \in ClosedRows(db) :
            RowSnapshot(PhaseRow(db', r.shiny_phase_id)) = RowSnapshot(r)]_vars

SummaryTotals(summary) ==
    <<summary.total_encounters, summary.shiny_encounters, summary.catches,
      summary.total_highest_iv_sum, summary.total_lowest_iv_sum,
      summary.total_highest_sv, summary.total_lowest_sv>>

SummaryPhase(summary) ==
    <<summary.phase_encounters, summary.phase_highest_iv_sum, summary.phase_lowest_iv_sum,
      summary.phase_highest_sv, summary.phase_lowest_sv>>

\* every summary of `before` is in `after` with the totals it had
TotalsKept(before, after) ==
    /\ DOMAIN before \subseteq DOMAIN after
    /\ \A k \in DOMAIN before : SummaryTotals(after[k]) = SummaryTotals(before[k])

PhaseFieldsZeroed(summaries) ==
    \A k \in DOMAIN summaries : SummaryPhase(summaries[k]) = <<0, NULL, NULL, NULL, NULL>>

\* C27: a reset_shiny_phase that closes a phase leaves every summary, in the
\* cache and in the store, with phase_encounters 0 and null phase-scoped
\* high/low values, with the totals, catches and lifetime high/low values it
\* had, and removes none.
C27_ResetZeroesPhaseFields ==
    [][IsPhaseClose =>
         /\ PhaseFieldsZeroed(encounter_summaries')
         /\ PhaseFieldsZeroed(db'.encounter_summaries)
         /\ TotalsKept(encounter_summaries, encounter_summaries')
         /\ TotalsKept(db.encounter_summaries, db'.encounter_summaries)
    ]_vars

PhaseCounters(phase) ==
    <<phase.encounters, phase.highest_iv_sum, phase.lowest_iv_sum, phase.highest_sv,
      phase.lowest_sv, phase.longest_streak, phase.current_streak,
      phase.fishing_attempts, phase.successful_fishing_attempts,
      phase.longest_unsuccessful_fishing_streak, phase.current_unsuccessful_fishing_streak,
      phase.pokenav_calls, phase.shiny_encounter>>

RowCounters(r) ==
    <<r.encounters, r.highest_iv_sum, r.highest_iv_sum_species, r.lowest_iv_sum,
      r.lowest_iv_sum_species, r.highest_sv, r.highest_sv_species, r.lowest_sv,
      r.lowest_sv_species, r.longest_streak_species, r.current_streak_species,
      r.fishing_attempts, r.successful_fishing_attempts,
      r.longest_unsuccessful_fishing_streak, r.current_unsuccessful_fishing_streak,
      r.pokenav_calls, r.shiny_encounter_id>>

\* C28: clear_current_shiny_phase with a phase open leaves the phase open with
\* its id, in memory and in the store, and every counter and record-holder of
\* it, in memory and in the store, as ShinyPhase.create and the INSERT of a new
\* phase leave them; with no phase open it changes nothing.
C28_ClearResetsPhase ==
    [][ClearCurrentShinyPhase =>
         IF current_shiny_phase = None
         THEN /\ current_shiny_phase' = None
              /\ db' = db
              /\ disk' = disk
              /\ encounter_summaries' = encounter_summaries
         ELSE /\ current_shiny_phase' # None
              /\ current_shiny_phase'.shiny_phase_id = current_shiny_phase.shiny_phase_id
              /\ current_shiny_phase'.end_time = NULL
              /\ PhaseCounters(current_shiny_phase') = PhaseCounters(ShinyPhase_create(0, 0))
              /\ PhaseRow(db', current_shiny_phase.shiny_phase_id).end_time = NULL
              /\ RowCounters(PhaseRow(db', current_shiny_phase.shiny_phase_id)) =
                    RowCounters(ShinyPhaseRow(0, 0))
    ]_vars

\* C29: clear_current_shiny_phase leaves every summary, in the cache and in
\* the store, with the totals, catches and lifetime high/low values it had,
\* and leaves the encounter log, the closed phases, the shortest and longest
\* pointers and the next encounter id as they were.
C29_ClearFrame ==
    [][ClearCurrentShinyPhase =>
         /\ TotalsKept(encounter_summaries, encounter_summaries')
         /\ DOMAIN encounter_summaries' = DOMAIN encounter_summaries
         /\ TotalsKept(db.encounter_summaries, db'.encounter_summaries)
         /\ TotalsKept(disk.encounter_summaries, disk'.encounter_summaries)
         /\ db'.encounters = db.encounters
         /\ disk'.encounters = disk.encounters
         /\ ClosedRows(db') = ClosedRows(db)
         /\ ClosedRows(disk') = ClosedRows(disk)
         /\ shortest_shiny_phase' = shortest_shiny_phase
         /\ longest_shiny_phase' = longest_shiny_phase
         /\ next_encounter_id' = next_encounter_id
    ]_vars

\* a phase has been cleared with species counted, encounters logged, a phase
\* closed and both pointers set
C29_Witness ==
    /\ running
    /\ current_shiny_phase # None
    /\ current_shiny_phase.shiny_encounter = [int |-> 0]
    /\ current_shiny_phase.start_time = now
    /\ \E k \in DOMAIN encounter_summaries : encounter_summaries[k].total_encounters > 0
    /\ db.encounters # {}
    /\ ClosedRows(db) # {}
    /\ shortest_shiny_phase # None
    /\ longest_shiny_phase # None
    /\ next_encounter_id > 1

--------------------------------------------------------------------------
(* Fishing attempts *)

\* C30: the longest unsuccessful streak of the open phase is never below the
\* current one; log_fishing_attempt with a phase open adds 1 to its
\* fishing_attempts, and for the result Encounter adds 1 to
\* successful_fishing_attempts and sets the current unsuccessful streak to 0,
\* for any other result adds 1 to the current streak and raises the longest
\* streak to it when exceeded; with no phase open there is no phase afterwards
\* and the stored phases are as they were.
C30_FishingCounters ==
    /\ [](current_shiny_phase # None =>
            current_shiny_phase.longest_unsuccessful_fishing_streak >=
               current_shiny_phase.current_unsuccessful_fishing_streak)
    /\ [][LogFishingAttempt =>
            IF current_shiny_phase = None
            THEN /\ current_shiny_phase' = None
                 /\ db'.shiny_phases = db.shiny_phases
            ELSE /\ current_shiny_phase' # None
                 /\ current_shiny_phase'.fishing_attempts =
                       current_shiny_phase.fishing_attempts + 1
                 /\ IF last_fishing_attempt' = "Encounter"
                    THEN /\ current_shiny_phase'.successful_fishing_attempts =
                               current_shiny_phase.successful_fishing_attempts + 1
                         /\ current_shiny_phase'.current_unsuccessful_fishing_streak = 0
                         /\ current_shiny_phase'.longest_unsuccessful_fishing_streak =
                               current_shiny_phase.longest_unsuccessful_fishing_streak
                    ELSE /\ current_shiny_phase'.successful_fishing_attempts =
                               current_shiny_phase.successful_fishing_attempts
                         /\ current_shiny_phase'.current_unsuccessful_fishing_streak =
                               current_shiny_phase.current_unsuccessful_fishing_streak + 1
                         /\ current_shiny_phase'.longest_unsuccessful_fishing_streak =
                               MaxOf({current_shiny_phase.longest_unsuccessful_fishing_streak,
                                      current_shiny_phase.current_unsuccessful_fishing_streak + 1})
       ]_vars

--------------------------------------------------------------------------
(* The work queue *)

C32_BoundedWait == (server.pc = "joining") ~> (server.pc = "idle")

--------------------------------------------------------------------------
(* The encounter-rate estimators *)

WindowSpan(window) == window[Len(window)] - window[1]

\* C33: both estimators are 0 while the windows of this engine instance hold
\* fewer than 2 samples; the two windows have the same length, which never
\* exceeds the capacity (100, or 1000 in benchmark mode); a sample taken with
\* the windows full drops the oldest sample of each; an estimator whose window
\* spans no time, or a negative one, is 0.
C33_EncounterRates ==
    /\ [](Len(rates.timestamps) < 2 =>
            rates.encounter_rate = 0 /\ rates.encounter_rate_at_1x = 0)
    /\ [](Len(rates.timestamps) = Len(rates.frames))
    /\ [](/\ rates.maxlen \in {100, 1000}
          /\ Len(rates.timestamps) <= rates.maxlen)
    /\ [](Len(rates.timestamps) >= 2 =>
            /\ WindowSpan(rates.timestamps) <= 0 => rates.encounter_rate = 0
            /\ WindowSpan(rates.frames) <= 0 => rates.encounter_rate_at_1x = 0
            /\ rates.encounter_rate >= 0
            /\ rates.encounter_rate_at_1x >= 0)
    /\ [][UpdateEncounterRates =>
            IF Len(rates.timestamps) = rates.maxlen
            THEN /\ rates'.timestamps = Append(Tail(rates.timestamps), now')
                 /\ rates'.frames = Append(Tail(rates.frames), frame')
            ELSE /\ rates'.timestamps = Append(rates.timestamps, now')
                 /\ rates'.frames = Append(rates.frames, frame')
       ]_vars

\* the windows are full and have dropped a sample, and both estimators are set
C33_Witness ==
    /\ Len(rates.timestamps) = rates.maxlen
    /\ rates.samples = rates.maxlen + FreeSamples + 1
    /\ rates.encounter_rate > 0
    /\ rates.encounter_rate_at_1x > 0

--------------------------------------------------------------------------
(* A phase written and read back *)

\* what of a phase the store is to give back
PhaseContent(phase) ==
    <<phase.encounters, phase.highest_iv_sum, phase.lowest_iv_sum, phase.highest_sv,
      phase.lowest_sv, phase.longest_streak, phase.current_streak,
      phase.fishing_attempts, phase.successful_fishing_attempts,
      phase.longest_unsuccessful_fishing_streak, phase.current_unsuccessful_fishing_streak,
      phase.pokenav_calls, phase.snapshot_total_encounters,
      phase.snapshot_total_shiny_encounters, phase.snapshot_species_encounters,
      phase.snapshot_species_shiny_encounters>>

\* log_pokenav_call with a phase open: an increment, _update_shiny_phase, _commit
IsPhaseWrite == current_shiny_phase # None /\ LogPokenavCall

\* C34: after an operation that writes the open phase with _update_shiny_phase,
\* the row of the phase read through _query_shiny_phases and
\* ShinyPhase.from_row_data has the encounters count, record-holders, streaks,
\* fishing counters, pokenav_calls and snapshot values of the phase in memory.
C34_PhaseRoundTrip ==
    [][IsPhaseWrite =>
         PhaseContent(query_shiny_phase(db',
                         PhaseRow(db', current_shiny_phase'.shiny_phase_id))) =
            PhaseContent(current_shiny_phase')
    ]_vars

--------------------------------------------------------------------------
(* What log_fishing_attempt stores *)

RowFishing(r) ==
    <<r.fishing_attempts, r.successful_fishing_attempts,
      r.longest_unsuccessful_fishing_streak, r.current_unsuccessful_fishing_streak>>

PhaseFishing(phase) ==
    <<phase.fishing_attempts, phase.successful_fishing_attempts,
      phase.longest_unsuccessful_fishing_streak, phase.current_unsuccessful_fishing_streak>>

\* C35: log_fishing_attempt with a phase open and the result Encounter counts
\* the attempt in the phase in memory and leaves the store, as the connection
\* sees it and as committed, as it was; with any other result it leaves the
\* fishing counters of the phase in memory committed in the row of the phase.
C35_FishingWrites ==
    [][(LogFishingAttempt /\ current_shiny_phase # None) =>
         IF last_fishing_attempt' = "Encounter"
         THEN /\ db' = db
              /\ disk' = disk
              /\ current_shiny_phase'.fishing_attempts =
                    current_shiny_phase.fishing_attempts + 1
              /\ current_shiny_phase'.successful_fishing_attempts =
                    current_shiny_phase.successful_fishing_attempts + 1
         ELSE /\ disk' = db'
              /\ RowFishing(PhaseRow(disk', current_shiny_phase.shiny_phase_id)) =
                    PhaseFishing(current_shiny_phase')
    ]_vars

--------------------------------------------------------------------------
(* Phase encounters, counted twice *)

\* C36: while the engine runs with a phase open, phase_encounters summed over
\* the summaries is the encounters count of the phase; with no phase open the
\* sum is 0.
C36_PhaseEncountersSum ==
    running =>
       SumOver(encounter_summaries, DOMAIN encounter_summaries, "phase_encounters") =
          IF current_shiny_phase = None THEN 0 ELSE current_shiny_phase.encounters

--------------------------------------------------------------------------
(* The view a consumer holds *)

\* C37: in a GlobalStats object a consumer holds and has read the totals of,
\* totals.total_encounters is the sum of total_encounters over its
\* encounter_summaries, and the encounters count of its current_shiny_phase is
\* the sum of phase_encounters over them, the phase_encounters of its totals.
C37_ConsistentView ==
    (ViewHeld /\ global_stats.totals # None) =>
       /\ global_stats.totals.total_encounters =
             SumOver(ViewSummaries, DOMAIN ViewSummaries, "total_encounters")
       /\ ViewPhase # None =>
             /\ ViewPhase.encounters =
                   SumOver(ViewSummaries, DOMAIN ViewSummaries, "phase_encounters")
             /\ ViewPhase.encounters = global_stats.totals.phase_encounters

--------------------------------------------------------------------------
(* A closed phase under later operations *)

\* one of the operations that work on the phase
IsPhaseOperation ==
    \/ UpgradedLogEncounter
    \/ LogFishingAttempt
    \/ LogPokenavCall
    \/ ClearCurrentShinyPhase
    \/ ResetShinyPhase

\* the pointer still refers to the same phase, and to the same fields
PointerKept(before, after) ==
    (before # None /\ after # None /\ after.shiny_phase_id = before.shiny_phase_id)
       => after = before

\* C38: log_encounter, log_fishing_attempt, log_pokenav_call,
\* clear_current_shiny_phase and reset_shiny_phase change no field of a phase
\* that is closed: its row stays as it is in the store, in the transaction and
\* as committed, and so does a shortest or longest pointer that refers to it.
C38_ClosedPhaseFrozen ==
    [][IsPhaseOperation =>
         /\ ClosedRows(db) \subseteq db'.shiny_phases
         /\ ClosedRows(disk) \subseteq disk'.shiny_phases
         /\ PointerKept(shortest_shiny_phase, shortest_shiny_phase')
         /\ PointerKept(longest_shiny_phase, longest_shiny_phase')]_vars

\* a closed phase is stored and pointed to, and log_encounter, log_pokenav_call
\* and reset_shiny_phase have been called since
C38_Witness ==
    /\ ClosedRows(db) # {}
    /\ shortest_shiny_phase # None
    /\ longest_shiny_phase # None
    /\ calls # <<>>
    /\ current_shiny_phase # None
    /\ current_shiny_phase.pokenav_calls > 0
    /\ current_shiny_phase.end_time # NULL

--------------------------------------------------------------------------
(* The rows of a store across a migration *)

\* __init__ runs on a store of schema version 1 or 2
IsMigration == SchemaConstruct /\ get_schema_version(stats_db) \in {1, 2}

\* C39: when __init__ has migrated a store of schema version 1 or 2, the rows
\* of encounters, shiny_phases and encounter_summaries are the rows the store
\* had, and base_data holds every key with the value it had.
C39_MigrationKeepsRows ==
    [][(IsMigration /\ running') =>
          /\ disk' = disk
          /\ stats_db'.base_data_rows = stats_db.base_data_rows]_vars

--------------------------------------------------------------------------
(* The shiny log *)

LogIds(log) == { log[i].shiny_phase_id : i \in DOMAIN log }

\* C40: the list get_shiny_log returns holds every closed phase of the store
\* once and no open one, the phase closed last first.
C40_ShinyLog ==
    [][GetShinyLog =>
         /\ LogIds(shiny_log') = { r.shiny_phase_id : r \in ClosedRows(db) }
         /\ Len(shiny_log') = Cardinality(ClosedRows(db))
         /\ \A i, j \in DOMAIN shiny_log' :
               i < j => shiny_log'[i].end_time > shiny_log'[j].end_time]_vars

====
